---- MODULE Spec2Model ----
(***************************************************************************)
(* Model of the Alert Notification Service of nlmphung/C-final-project     *)
(* (src/alert_notification_service.{h,cpp}).                               *)
(*                                                                         *)
(* The state is the fields of CAlertNotificationService; every handler and *)
(* public member function is one action.  All of them run on the single    *)
(* EventQueue thread (main.cpp:49, gap.cpp:89), so each is atomic.         *)
(*                                                                         *)
(* Two fields are not state variables:                                     *)
(*   _control_point      is written at lines 156-157 and read only by the  *)
(*                       statement that follows (line 158); it is the      *)
(*                       LET-bound pair (command, category) of the handler.*)
(*   _alert_status[i].fields.category is i after construction (line 65)    *)
(*                       and line 155 re-writes the same value whenever    *)
(*                       the index is inside the array.                    *)
(* An index outside 0..9 is recorded in stray: the element accessed lies   *)
(* behind the array (index 10 aliases _control_point, larger indices lie   *)
(* outside the object), so no modelled field changes, and a value read     *)
(* from there is any of StrayBytes.                                        *)
(*                                                                         *)
(* writes is the sequence of GattServer::write calls made by the last      *)
(* operation through CGattService::setCharacteristicValue; a write to the  *)
(* New Alert (3) or Unread Alert Status (2) characteristic is a            *)
(* notification pushed to the peer.  last names the last operation, its    *)
(* arguments, its return value and the outcome it logged.                  *)
(*                                                                         *)
(* registered says whether CGattService::registerService has handed the    *)
(* service to the GattServer of the BLE stack, and attribute is the value  *)
(* the stack then holds, and a peer reads, for the Supported New Alert     *)
(* Category (0) and Supported Unread Alert Category (1) characteristics.   *)
(* The stack is not part of the repository; two facts of its API are used: *)
(* GattServer::addService copies the initial value of each characteristic  *)
(* from the buffer the characteristic was created with, and                *)
(* GattServer::write replaces the value of a registered characteristic and *)
(* fails, changing nothing, for a characteristic that has no handle yet.   *)
(*                                                                         *)
(* event_queue is the application's EventQueue: the calls posted by        *)
(* buttonPressedISR and CGap::scheduleBLEEventsToProcess that the main     *)
(* thread has not dispatched yet, oldest first.  The specifications that   *)
(* call the handlers directly leave it empty.  presses counts the falling  *)
(* edges of the button, that is the runs of buttonPressedISR, since        *)
(* construction; the program keeps no such count (_button_press_count is   *)
(* reset by onConnected), the properties of the queue need it.             *)
(*                                                                         *)
(* trip is the record of the calls of the two static CategoryId/mask       *)
(* conversions in SpecMasks: the argument drawn, then each result.         *)
(*                                                                         *)
(* The GATT layer under the services (src/gatt_server.{h,cpp},             *)
(* src/gatt_service.{h,cpp}) is modelled for service objects under         *)
(* construction: started and services are the fields of CGattServer,       *)
(* stack_services and event_handler what startServer has given the stack;  *)
(* service, characteristics and characteristics_user_descriptions are the  *)
(* fields of each CGattService.  alert_level, alert_level_value and led    *)
(* are the fields of CImmediateAlertService (led as the duty cycle in      *)
(* percent).  last and writes record the operations of these classes too.  *)
(* delivered is the record of the onDataWrittenHandler calls made by the   *)
(* last CGattServer::onDataWritten.                                        *)
(*                                                                         *)
(* The connection layer (src/gap.{h,cpp}, src/secure_gap.{h,cpp}) is the   *)
(* CSecureGap object of main.cpp: ble_init is the outcome of the BLE       *)
(* initialisation, advertising and peer are the state of the stack         *)
(* (advertising, a link to a peer), link_security the security asked for   *)
(* the link, led_event_id the field _led_event_id, led_events the ids of   *)
(* the periodic toggleLED events scheduled on the EventQueue, and gap_led  *)
(* the pin of CGap::_led.                                                  *)
(***************************************************************************)
EXTENDS Integers, Sequences, FiniteSets, TLC

VARIABLES connected, button_press_count,
          supported_new_alert_category, supported_unread_alert_category,
          enabled_new_alert_category, enabled_unread_alert_category,
          alert_status, writes, stray, last,
          registered, attribute, event_queue, presses, trip,
          started, services, stack_services, event_handler, delivered,
          service, characteristics, characteristics_user_descriptions,
          alert_level, alert_level_value, led,
          ble_init, advertising, peer, link_security,
          led_event_id, led_events, gap_led

\* the fields of CAlertNotificationService and the record of its last
\* operation
ans_vars == <<connected, button_press_count,
              supported_new_alert_category, supported_unread_alert_category,
              enabled_new_alert_category, enabled_unread_alert_category,
              alert_status, writes, stray, last>>

\* the service in the attribute table of the BLE stack
published == <<registered, attribute>>

\* the event queue and the falling edges of the button counted
queue_vars == <<event_queue, presses>>

\* the fields of CGattServer, and what it has handed to the stack
server_vars == <<started, services, stack_services, event_handler, delivered>>

\* the fields of the CGattService objects
service_vars == <<service, characteristics, characteristics_user_descriptions>>

\* the fields of CImmediateAlertService
ias_vars == <<alert_level, alert_level_value, led>>

\* the fields of CGap and CSecureGap, the link and the periodic events
gap_vars == <<ble_init, advertising, peer, link_security,
              led_event_id, led_events, gap_led>>

\* the state outside the Alert Notification Service and its event queue
outside == <<trip, server_vars, service_vars, ias_vars, gap_vars>>

vars == <<ans_vars, published, queue_vars, outside>>

masks == <<supported_new_alert_category, supported_unread_alert_category,
           enabled_new_alert_category, enabled_unread_alert_category>>

(***************************************************************************)
(* Program constants                                                       *)
(***************************************************************************)
ANS_ALERT_CATEGORY_COUNT == 10

ANS_TYPE_SIMPLE_ALERT == 0

ANS_TYPE_ALL_ALERTS == 255

ANS_TYPE_MASK_SIMPLE_ALERT == 1

ANS_TYPE_MASK_ALL_ALERTS == 1023

ANS_ENABLE_NEW_INCOMING_ALERT_NOTIFICATION == 0

ANS_ENABLE_UNREAD_CATEGORY_STATUS_NOTIFICATION == 1

ANS_DISABLE_NEW_INCOMING_ALERT_NOTIFICATION == 2

ANS_DISABLE_UNREAD_CATEGORY_STATUS_NOTIFICATION == 3

ANS_NOTIFY_NEW_INCOMING_ALERT_IMMEDIATELY == 4

ANS_NOTIFY_UNREAD_CATEGORY_STATUS_IMMEDIATELY == 5

supported_new_alert_category_index == 0

supported_unread_alert_category_index == 1

unread_alert_status_index == 2

new_alert_index == 3

alert_notification_control_point_index == 4

(***************************************************************************)
(* Bounds of the model                                                     *)
(***************************************************************************)
\* largest value a per-category counter is driven to
MaxCount == 2

\* largest value _button_press_count is driven to
MaxPress == 2

\* most entries of the event queue while the stack posts a call
MaxQueue == 2

\* most characteristics added to one service
MaxCharacteristics == 2

\* most entries of the service list of the server
MaxServices == 2

\* most LED events scheduled since construction
MaxLedEvents == 4

\* the first bytes written to the alert-level characteristic
LevelBytes == {0, 1, 2, 3, 255}

\* CategoryId arguments of the public member functions: concrete categories
CategoryIds == {0, 2}

\* category bytes of control-point commands: in range, behind the array, ALL
CategoryBytes == {0, 2, 10, ANS_TYPE_ALL_ALERTS}

\* command bytes of control-point commands: the six commands and an unknown one
CommandBytes == 0..6

\* arguments of setSupportedNewAlertsCategory and setSupportedUnreadAlertsCategory
MaskArgs == {0, 4, 5}

\* the byte of a 1-byte control-point write
OneByte == {0, 255}

\* values a read behind _alert_status can yield
StrayBytes == {0, 200}

Categories == 0..(ANS_ALERT_CATEGORY_COUNT - 1)

(***************************************************************************)
(* Fixed-width integer arithmetic                                          *)
(***************************************************************************)
ToU8(x) == x % 256

ToU16(x) == x % 65536

Bit(m, i) == (m \div (2^i)) % 2

\* a & b on unsigned operands, bit by bit from the lowest
RECURSIVE BitAnd(_, _)
BitAnd(a, b) ==
    IF a = 0 \/ b = 0 THEN 0
    ELSE (a % 2) * (b % 2) + 2 * BitAnd(a \div 2, b \div 2)

\* a | b on uint16_t operands
BitOr(a, b) == a + b - BitAnd(a, b)

\* a & ~b, the result stored in a uint16_t
BitClear(a, b) == a - BitAnd(a, b)

(***************************************************************************)
(* CategoryMask utilities (alert_notification_service.h)                   *)
(***************************************************************************)
\* (uint16_t)(1 << n) for n in 0..31: the bits 16..31 of the int are cut off
ShiftedOne(n) == IF n < 16 THEN 2^n ELSE 0

\* getCategoryMaskFromId without its test for ANS_TYPE_ALL_ALERTS
getCategoryMaskFromId_NoAllCase(category) ==
    IF category < 32 THEN {ShiftedOne(category)}
    ELSE {0, ShiftedOne(category % 32)}

\* The results of getCategoryMaskFromId: 1 << category computed in int and
\* returned as uint16_t.  A shift by 32 or more is undefined: the build
\* yields 0 (register shift) or shifts by category mod 32.
getCategoryMaskFromId(category) ==
    IF category = ANS_TYPE_ALL_ALERTS THEN {ANS_TYPE_MASK_ALL_ALERTS}
    ELSE IF category < 32 THEN {ShiftedOne(category)}
    ELSE {0, ShiftedOne(category % 32)}

\* the loop of getCategoryIdFromMask ending one category early
RECURSIVE LowestBitFrom_StopsEarly(_, _)
LowestBitFrom_StopsEarly(mask, ii) ==
    IF ii >= ANS_ALERT_CATEGORY_COUNT - 1 THEN 0
    ELSE IF Bit(mask, ii) = 1 THEN ii
    ELSE LowestBitFrom_StopsEarly(mask, ii + 1)

\* the loop of getCategoryIdFromMask without its break: the last set bit
\* below ANS_ALERT_CATEGORY_COUNT is kept
RECURSIVE LowestBitFrom_NoBreak(_, _)
LowestBitFrom_NoBreak(mask, ii) ==
    IF ii >= ANS_ALERT_CATEGORY_COUNT THEN 0
    ELSE LET later == LowestBitFrom_NoBreak(mask, ii + 1)
         IN IF later # 0 THEN later
            ELSE IF Bit(mask, ii) = 1 THEN ii ELSE 0

\* the loop of getCategoryIdFromMask from ii on; category stays 0 when no
\* bit below ANS_ALERT_CATEGORY_COUNT is set
RECURSIVE LowestBitFrom(_, _)
LowestBitFrom(mask, ii) ==
    IF ii >= ANS_ALERT_CATEGORY_COUNT THEN 0
    ELSE IF Bit(mask, ii) = 1 THEN ii
    ELSE LowestBitFrom(mask, ii + 1)

getCategoryIdFromMask(mask) == LowestBitFrom(mask, 0)

(***************************************************************************)
(* AlertCounterStore                                                       *)
(***************************************************************************)
\* clearAlertsOfCategory without its case ANS_TYPE_ALL_ALERTS
clearAlertsOfCategory_NoAllCase(status, category) ==
    IF category \in Categories
    THEN [status EXCEPT ![category].count = 0]
    ELSE status

\* clearAlertsOfCategory clearing the simple-alert counter with every category
clearAlertsOfCategory_AlsoSimpleAlert(status, category) ==
    IF category \in Categories
    THEN [status EXCEPT ![category].count = 0, ![ANS_TYPE_SIMPLE_ALERT].count = 0]
    ELSE IF category = ANS_TYPE_ALL_ALERTS
    THEN [i \in Categories |-> [status[i] EXCEPT !.count = 0]]
    ELSE status

clearAlertsOfCategory(status, category) ==
    IF category \in Categories
    THEN [status EXCEPT ![category].count = 0]
    ELSE IF category = ANS_TYPE_ALL_ALERTS
    THEN [i \in Categories |-> [status[i] EXCEPT !.count = 0]]
    ELSE status

\* the loop of setSupported*AlertsCategory clearing no counter
ClearSupported_Nothing(status, mask, ii) == status

\* the loop of setSupported*AlertsCategory: clear every category ii < 10
\* whose bit is set in the new mask
RECURSIVE ClearSupported(_, _, _)
ClearSupported(status, mask, ii) ==
    IF ii >= ANS_ALERT_CATEGORY_COUNT THEN status
    ELSE ClearSupported(IF Bit(mask, ii) # 0
                        THEN clearAlertsOfCategory(status, ii)
                        ELSE status,
                        mask, ii + 1)

\* one call of CGattService::setCharacteristicValue<T>: the characteristic,
\* sizeof(T) and the value handed to GattServer::write
setCharacteristicValue(characteristic, size, value) ==
    [chr |-> characteristic, size |-> size, value |-> value]

Op(op, arg, ret, log) == [op |-> op, arg |-> arg, ret |-> ret, log |-> log]

(***************************************************************************)
(* Construction                                                            *)
(***************************************************************************)
\* the characteristics with BLE_GATT_CHAR_PROPERTIES_READ
ReadableCharacteristics ==
    {supported_new_alert_category_index, supported_unread_alert_category_index}

\* the value of a characteristic the stack has not been given
NotPublished == -1

\* the constructor without its two setSupported*AlertsCategory calls
Init_NoSupportedCategory ==
    /\ connected = FALSE
    /\ button_press_count = 0
    /\ supported_new_alert_category = 0
    /\ supported_unread_alert_category = 0
    /\ enabled_new_alert_category = 0
    /\ enabled_unread_alert_category = 0
    /\ alert_status = [i \in Categories |-> [category |-> i, count |-> 0]]
    /\ writes = <<>>
    /\ stray = {}
    /\ last = Op("CAlertNotificationService", <<>>, "void", "constructed")
    /\ registered = FALSE
    /\ attribute = [characteristic \in ReadableCharacteristics |-> NotPublished]
    /\ event_queue = <<>>
    /\ presses = 0

\* State after CAlertNotificationService::CAlertNotificationService: all
\* fields zeroed, then setSupportedNew/UnreadAlertsCategory(SIMPLE_ALERT).
Init ==
    /\ connected = FALSE
    /\ button_press_count = 0
    /\ supported_new_alert_category = ANS_TYPE_MASK_SIMPLE_ALERT
    /\ supported_unread_alert_category = ANS_TYPE_MASK_SIMPLE_ALERT
    /\ enabled_new_alert_category = 0
    /\ enabled_unread_alert_category = 0
    /\ alert_status = [i \in Categories |-> [category |-> i, count |-> 0]]
    /\ writes = << setCharacteristicValue(supported_new_alert_category_index, 2,
                                          ANS_TYPE_MASK_SIMPLE_ALERT),
                   setCharacteristicValue(supported_unread_alert_category_index, 2,
                                          ANS_TYPE_MASK_SIMPLE_ALERT) >>
    /\ stray = {}
    /\ last = Op("CAlertNotificationService", <<>>, "void", "constructed")
    /\ registered = FALSE
    /\ attribute = [characteristic \in ReadableCharacteristics |-> NotPublished]
    /\ event_queue = <<>>
    /\ presses = 0

(***************************************************************************)
(* Connection events                                                       *)
(***************************************************************************)
onConnected ==
    /\ alert_status' = clearAlertsOfCategory(alert_status, ANS_TYPE_ALL_ALERTS)
    /\ button_press_count' = 0
    /\ connected' = TRUE
    /\ writes' = <<>>
    /\ stray' = {}
    /\ last' = Op("onConnected", <<>>, "void", "")
    /\ UNCHANGED masks

onDisconnected ==
    /\ connected' = FALSE
    /\ alert_status' = clearAlertsOfCategory(alert_status, ANS_TYPE_ALL_ALERTS)
    /\ writes' = <<>>
    /\ stray' = {}
    /\ last' = Op("onDisconnected", <<>>, "void", "")
    /\ UNCHANGED <<button_press_count, masks>>

(***************************************************************************)
(* Configuration of the supported categories                               *)
(***************************************************************************)
\* the early return of the six mutators while a peer is connected
RejectedWhileConnected(name, arg) ==
    /\ writes' = <<>>
    /\ stray' = {}
    /\ last' = Op(name, arg, "false", "connected")
    /\ UNCHANGED <<connected, button_press_count, masks, alert_status>>

setSupportedUnreadAlertsCategory(supportedUnreadAlerts) ==
    IF connected
    THEN RejectedWhileConnected("setSupportedUnreadAlertsCategory", <<supportedUnreadAlerts>>)
    ELSE /\ supported_unread_alert_category' = supportedUnreadAlerts
         /\ alert_status' = ClearSupported(alert_status, supportedUnreadAlerts, 0)
         /\ writes' = << setCharacteristicValue(supported_unread_alert_category_index, 2,
                                                supportedUnreadAlerts) >>
         /\ stray' = {}
         /\ last' = Op("setSupportedUnreadAlertsCategory", <<supportedUnreadAlerts>>, "true", "")
         /\ UNCHANGED <<connected, button_press_count, supported_new_alert_category,
                        enabled_new_alert_category, enabled_unread_alert_category>>

addSupportedUnreadAlertsCategory(category) ==
    IF connected
    THEN RejectedWhileConnected("addSupportedUnreadAlertsCategory", <<category>>)
    ELSE \E category_mask \in getCategoryMaskFromId(category) :
         /\ supported_unread_alert_category' =
                BitOr(supported_unread_alert_category, category_mask)
         /\ alert_status' = clearAlertsOfCategory(alert_status, category)
         /\ writes' = << setCharacteristicValue(supported_unread_alert_category_index, 2,
                            BitOr(supported_unread_alert_category, category_mask)) >>
         /\ stray' = {}
         /\ last' = Op("addSupportedUnreadAlertsCategory", <<category>>, "true", "")
         /\ UNCHANGED <<connected, button_press_count, supported_new_alert_category,
                        enabled_new_alert_category, enabled_unread_alert_category>>

removeSupportedUnreadAlertsCategory(category) ==
    IF connected
    THEN RejectedWhileConnected("removeSupportedUnreadAlertsCategory", <<category>>)
    ELSE \E category_mask \in getCategoryMaskFromId(category) :
         /\ supported_unread_alert_category' =
                BitClear(supported_unread_alert_category, category_mask)
         /\ writes' = << setCharacteristicValue(supported_unread_alert_category_index, 2,
                            BitClear(supported_unread_alert_category, category_mask)) >>
         /\ alert_status' = clearAlertsOfCategory(alert_status, category)
         /\ stray' = {}
         /\ last' = Op("removeSupportedUnreadAlertsCategory", <<category>>, "true", "")
         /\ UNCHANGED <<connected, button_press_count, supported_new_alert_category,
                        enabled_new_alert_category, enabled_unread_alert_category>>

\* setSupportedNewAlertsCategory without its check of _connected
setSupportedNewAlertsCategory_NoConnectedCheck(supportedNewAlerts) ==
    /\ supported_new_alert_category' = supportedNewAlerts
    /\ alert_status' = ClearSupported(alert_status, supportedNewAlerts, 0)
    /\ writes' = << setCharacteristicValue(supported_new_alert_category_index, 2,
                                           supportedNewAlerts) >>
    /\ stray' = {}
    /\ last' = Op("setSupportedNewAlertsCategory", <<supportedNewAlerts>>, "true", "")
    /\ UNCHANGED <<connected, button_press_count, supported_unread_alert_category,
                   enabled_new_alert_category, enabled_unread_alert_category>>

setSupportedNewAlertsCategory(supportedNewAlerts) ==
    IF connected
    THEN RejectedWhileConnected("setSupportedNewAlertsCategory", <<supportedNewAlerts>>)
    ELSE /\ supported_new_alert_category' = supportedNewAlerts
         /\ alert_status' = ClearSupported(alert_status, supportedNewAlerts, 0)
         /\ writes' = << setCharacteristicValue(supported_new_alert_category_index, 2,
                                                supportedNewAlerts) >>
         /\ stray' = {}
         /\ last' = Op("setSupportedNewAlertsCategory", <<supportedNewAlerts>>, "true", "")
         /\ UNCHANGED <<connected, button_press_count, supported_unread_alert_category,
                        enabled_new_alert_category, enabled_unread_alert_category>>

\* addSupportedNewAlertsCategory assigning the mask of the category instead
\* of or-ing it in
addSupportedNewAlertsCategory_Assigns(category) ==
    IF connected
    THEN RejectedWhileConnected("addSupportedNewAlertsCategory", <<category>>)
    ELSE \E category_mask \in getCategoryMaskFromId(category) :
         /\ supported_new_alert_category' = category_mask
         /\ writes' = << setCharacteristicValue(supported_new_alert_category_index, 2,
                                                category_mask) >>
         /\ alert_status' = clearAlertsOfCategory(alert_status, category)
         /\ stray' = {}
         /\ last' = Op("addSupportedNewAlertsCategory", <<category>>, "true", "")
         /\ UNCHANGED <<connected, button_press_count, supported_unread_alert_category,
                        enabled_new_alert_category, enabled_unread_alert_category>>

addSupportedNewAlertsCategory(category) ==
    IF connected
    THEN RejectedWhileConnected("addSupportedNewAlertsCategory", <<category>>)
    ELSE \E category_mask \in getCategoryMaskFromId(category) :
         /\ supported_new_alert_category' =
                BitOr(supported_new_alert_category, category_mask)
         /\ writes' = << setCharacteristicValue(supported_new_alert_category_index, 2,
                            BitOr(supported_new_alert_category, category_mask)) >>
         /\ alert_status' = clearAlertsOfCategory(alert_status, category)
         /\ stray' = {}
         /\ last' = Op("addSupportedNewAlertsCategory", <<category>>, "true", "")
         /\ UNCHANGED <<connected, button_press_count, supported_unread_alert_category,
                        enabled_new_alert_category, enabled_unread_alert_category>>

\* removeSupportedNewAlertsCategory clearing the enabled bit with the
\* supported bit
removeSupportedNewAlertsCategory_ClearsEnabled(category) ==
    IF connected
    THEN RejectedWhileConnected("removeSupportedNewAlertsCategory", <<category>>)
    ELSE \E category_mask \in getCategoryMaskFromId(category) :
         /\ supported_new_alert_category' =
                BitClear(supported_new_alert_category, category_mask)
         /\ enabled_new_alert_category' =
                BitClear(enabled_new_alert_category, category_mask)
         /\ writes' = << setCharacteristicValue(supported_new_alert_category_index, 2,
                            BitClear(supported_new_alert_category, category_mask)) >>
         /\ alert_status' = clearAlertsOfCategory(alert_status, category)
         /\ stray' = {}
         /\ last' = Op("removeSupportedNewAlertsCategory", <<category>>, "true", "")
         /\ UNCHANGED <<connected, button_press_count, supported_unread_alert_category,
                        enabled_unread_alert_category>>

removeSupportedNewAlertsCategory(category) ==
    IF connected
    THEN RejectedWhileConnected("removeSupportedNewAlertsCategory", <<category>>)
    ELSE \E category_mask \in getCategoryMaskFromId(category) :
         /\ supported_new_alert_category' =
                BitClear(supported_new_alert_category, category_mask)
         /\ writes' = << setCharacteristicValue(supported_new_alert_category_index, 2,
                            BitClear(supported_new_alert_category, category_mask)) >>
         /\ alert_status' = clearAlertsOfCategory(alert_status, category)
         /\ stray' = {}
         /\ last' = Op("removeSupportedNewAlertsCategory", <<category>>, "true", "")
         /\ UNCHANGED <<connected, button_press_count, supported_unread_alert_category,
                        enabled_new_alert_category, enabled_unread_alert_category>>

(***************************************************************************)
(* Local alert source                                                      *)
(***************************************************************************)
\* The outcomes of addNewAlertToCategory(category): the counters, the
\* characteristic writes, the indices used behind the array, the return
\* value and the message logged.
\* the supported check testing whether any category at all is supported
NotSupportedNew_AnyCategory(category_mask) ==
    supported_new_alert_category = 0

\* !(category_mask & _supported_new_alert_category)
NotSupportedNew(category_mask) ==
    BitAnd(category_mask, supported_new_alert_category) = 0

\* the increment counting an alert twice
IncrementCount_ByTwo(status, category) ==
    [status EXCEPT ![category].count = ToU8(@ + 2)]

\* the increment saturating at 255
IncrementCount_Saturating(status, category) ==
    [status EXCEPT ![category].count = IF @ = 255 THEN 255 ELSE @ + 1]

\* _alert_status[category].fields.count++ on a uint8_t
IncrementCount(status, category) ==
    [status EXCEPT ![category].count = ToU8(@ + 1)]

AddNewAlertOutcomes(category) ==
    LET inside == category \in Categories
        bumped == IF inside
                  THEN IncrementCount(alert_status, category)
                  ELSE alert_status
        counts == IF inside THEN {bumped[category].count} ELSE StrayBytes
        used   == IF inside THEN {} ELSE {category}
    IN  UNION { UNION {
          IF NotSupportedNew(category_mask)
          THEN {[status |-> alert_status, writes |-> <<>>, stray |-> {},
                 ret |-> "false", log |-> "not supported"]}
          ELSE IF BitAnd(category_mask, enabled_new_alert_category) = 0
          THEN {[status |-> bumped, writes |-> <<>>, stray |-> used,
                 ret |-> "false", log |-> "not enabled"]}
          ELSE IF BitAnd(category_mask, enabled_unread_alert_category) = 0
          THEN {[status |-> bumped,
                 writes |-> << setCharacteristicValue(new_alert_index, 1, count) >>,
                 stray |-> used,
                 ret |-> "false", log |-> "unread alerts not enabled"]}
          ELSE {[status |-> bumped,
                 writes |-> << setCharacteristicValue(new_alert_index, 1, count),
                               setCharacteristicValue(unread_alert_status_index, 1, count) >>,
                 stray |-> used,
                 ret |-> "true", log |-> "notified"]}
          : count \in counts }
        : category_mask \in getCategoryMaskFromId(category) }

addNewAlertToCategory(category) ==
    \E r \in AddNewAlertOutcomes(category) :
        /\ alert_status' = r.status
        /\ writes' = r.writes
        /\ stray' = r.stray
        /\ last' = Op("addNewAlertToCategory", <<category>>, r.ret, r.log)
        /\ UNCHANGED <<connected, button_press_count, masks>>

\* Runs on the event queue after buttonPressedISR has enqueued it.
\* _button_press_count is a uint32_t; its wrap at 2^32 lies far above MaxPress.
buttonPressedHandler ==
    \E r \in AddNewAlertOutcomes(ANS_TYPE_SIMPLE_ALERT) :
        /\ button_press_count' = button_press_count + 1
        /\ alert_status' = r.status
        /\ writes' = r.writes
        /\ stray' = r.stray
        /\ last' = Op("buttonPressedHandler", <<>>, "void", r.log)
        /\ UNCHANGED <<connected, masks>>

(***************************************************************************)
(* Control point                                                           *)
(***************************************************************************)
\* cases ANS_ENABLE_* toggling the bits of the category
CaseEnable_Toggles(supported, enabled, categoryMask) ==
    IF BitAnd(supported, categoryMask) # 0
    THEN [enabled |-> IF BitAnd(enabled, categoryMask) # 0
                      THEN BitClear(enabled, categoryMask)
                      ELSE BitOr(enabled, categoryMask),
          log |-> "Supported and enabled."]
    ELSE [enabled |-> enabled, log |-> "Category not supported."]

\* cases ANS_ENABLE_* without the test of the supported mask
CaseEnable_NoSupportedTest(supported, enabled, categoryMask) ==
    [enabled |-> BitOr(enabled, categoryMask), log |-> "Supported and enabled."]

\* cases ANS_ENABLE_*: the enabled mask and the message logged
CaseEnable(supported, enabled, categoryMask) ==
    IF BitAnd(supported, categoryMask) # 0
    THEN [enabled |-> BitOr(enabled, categoryMask), log |-> "Supported and enabled."]
    ELSE [enabled |-> enabled, log |-> "Category not supported."]

\* cases ANS_DISABLE_* clearing the whole enabled mask
CaseDisable_ClearsAll(supported, enabled, categoryMask) ==
    IF BitAnd(supported, categoryMask) # 0
    THEN [enabled |-> 0, log |-> "Supported and now disabled."]
    ELSE [enabled |-> enabled, log |-> "Category not supported."]

\* cases ANS_DISABLE_* without the test of the supported mask
CaseDisable_NoSupportedTest(supported, enabled, categoryMask) ==
    [enabled |-> BitClear(enabled, categoryMask), log |-> "Supported and now disabled."]

\* cases ANS_DISABLE_*: the enabled mask and the message logged
CaseDisable(supported, enabled, categoryMask) ==
    IF BitAnd(supported, categoryMask) # 0
    THEN [enabled |-> BitClear(enabled, categoryMask), log |-> "Supported and now disabled."]
    ELSE [enabled |-> enabled, log |-> "Category not supported."]

\* the loop of case ANS_NOTIFY_NEW_INCOMING_ALERT_IMMEDIATELY, category 0xff
RECURSIVE NotifyAllLoop(_, _, _)
NotifyAllLoop(enabled, value, i) ==
    IF i > ANS_ALERT_CATEGORY_COUNT THEN <<>>
    ELSE (IF Bit(enabled, i) = 1
          THEN << setCharacteristicValue(new_alert_index, 4, value) >>
          ELSE <<>>) \o NotifyAllLoop(enabled, value, i + 1)

\* the notify cases reading the press count instead of the category's count
StatusCountRead_PressCount(category) == {button_press_count}

\* _alert_status[category].fields.count as read by the notify cases
StatusCountRead(category) ==
    IF category \in Categories THEN {alert_status[category].count} ELSE StrayBytes

\* a default case that drops every subscription
CaseDefault_DropsSubscriptions ==
    {[en_new |-> 0, en_unread |-> 0, writes |-> <<>>, reads |-> {}, log |-> ""]}

\* the default case of the switch: nothing is done
CaseDefault ==
    {[en_new |-> enabled_new_alert_category,
      en_unread |-> enabled_unread_alert_category,
      writes |-> <<>>, reads |-> {}, log |-> ""]}

\* The switch of onDataWrittenHandler: the outcomes of a 2-byte command.
ControlPointOutcomes(command, category, categoryMask) ==
    LET same(log) == {[en_new |-> enabled_new_alert_category,
                       en_unread |-> enabled_unread_alert_category,
                       writes |-> <<>>, reads |-> {}, log |-> log]}
    IN
    IF command = ANS_ENABLE_NEW_INCOMING_ALERT_NOTIFICATION THEN
        LET r == CaseEnable(supported_new_alert_category, enabled_new_alert_category, categoryMask)
        IN {[en_new |-> r.enabled, en_unread |-> enabled_unread_alert_category,
             writes |-> <<>>, reads |-> {}, log |-> r.log]}
    ELSE IF command = ANS_ENABLE_UNREAD_CATEGORY_STATUS_NOTIFICATION THEN
        LET r == CaseEnable(supported_unread_alert_category, enabled_unread_alert_category, categoryMask)
        IN {[en_new |-> enabled_new_alert_category, en_unread |-> r.enabled,
             writes |-> <<>>, reads |-> {}, log |-> r.log]}
    ELSE IF command = ANS_DISABLE_NEW_INCOMING_ALERT_NOTIFICATION THEN
        LET r == CaseDisable(supported_new_alert_category, enabled_new_alert_category, categoryMask)
        IN {[en_new |-> r.enabled, en_unread |-> enabled_unread_alert_category,
             writes |-> <<>>, reads |-> {}, log |-> r.log]}
    ELSE IF command = ANS_DISABLE_UNREAD_CATEGORY_STATUS_NOTIFICATION THEN
        LET r == CaseDisable(supported_unread_alert_category, enabled_unread_alert_category, categoryMask)
        IN {[en_new |-> enabled_new_alert_category, en_unread |-> r.enabled,
             writes |-> <<>>, reads |-> {}, log |-> r.log]}
    ELSE IF command = ANS_NOTIFY_NEW_INCOMING_ALERT_IMMEDIATELY THEN
        IF category = 255
        THEN {[en_new |-> enabled_new_alert_category,
               en_unread |-> enabled_unread_alert_category,
               writes |-> NotifyAllLoop(enabled_new_alert_category, button_press_count, 0),
               reads |-> {}, log |-> "Notifying all categories of new incoming alert."]}
        ELSE IF BitAnd(enabled_new_alert_category, categoryMask) # 0
        THEN {[en_new |-> enabled_new_alert_category,
               en_unread |-> enabled_unread_alert_category,
               writes |-> << setCharacteristicValue(new_alert_index, 1, count) >>,
               reads |-> {category} \ Categories, log |-> "Notify characteristic"]
              : count \in StatusCountRead(category)}
        ELSE same("The spesified category is not enabled.")
    ELSE IF command = ANS_NOTIFY_UNREAD_CATEGORY_STATUS_IMMEDIATELY THEN
        IF BitAnd(enabled_unread_alert_category, categoryMask) # 0
        THEN {[en_new |-> enabled_new_alert_category,
               en_unread |-> enabled_unread_alert_category,
               writes |-> << setCharacteristicValue(unread_alert_status_index, 1, count) >>,
               reads |-> {category} \ Categories, log |-> "Trying to notify unread"]
              : count \in StatusCountRead(category)}
        ELSE same("Category not enabled.")
    ELSE CaseDefault

\* the size checks with the upper bound forgotten
PayloadKind_NoUpperBound(size) ==
    IF size < 1 THEN "rejected"
    ELSE IF size = 1 THEN "clear"
    ELSE "command"

\* the size checks of onDataWrittenHandler
PayloadKind(size) ==
    IF size < 1 \/ size > 2 THEN "rejected"
    ELSE IF size = 1 THEN "clear"
    ELSE IF size = 2 THEN "command"
    ELSE "none"

\* the loop of the size == 1 branch started at j = 1
ClearAllCounts_FromOne(status) ==
    [j \in Categories |-> IF j >= 1 THEN [status[j] EXCEPT !.count = 0] ELSE status[j]]

\* the loop of the size == 1 branch
ClearAllCounts(status) ==
    [j \in Categories |-> [status[j] EXCEPT !.count = 0]]

\* the test for the control point taking every characteristic of the service
IsControlPoint_Always(characteristic_index) == TRUE

\* characteristic_index == _alert_notification_control_point_index
IsControlPoint(characteristic_index) ==
    characteristic_index = alert_notification_control_point_index

\* characteristic_index is the position of the written characteristic in
\* _characteristics, -1 when it is not a characteristic of this service;
\* data is the written bytes, size = Len(data).
onDataWrittenHandler(characteristic_index, data) ==
    LET size == Len(data)
        unchanged(log) ==
            /\ writes' = <<>>
            /\ stray' = {}
            /\ last' = Op("onDataWrittenHandler", <<characteristic_index>> \o data, "void", log)
            /\ UNCHANGED <<connected, button_press_count, masks, alert_status>>
    IN
    IF characteristic_index = -1 THEN unchanged("not a characteristic of the service")
    ELSE IF ~IsControlPoint(characteristic_index)
    THEN unchanged("not the control point")
    ELSE IF PayloadKind(size) = "rejected"
    THEN unchanged("Size < 1 or size > 2, not processing command.")
    ELSE IF PayloadKind(size) = "none" THEN unchanged("")
    ELSE IF PayloadKind(size) = "clear"
    THEN /\ alert_status' = ClearAllCounts(alert_status)
         /\ writes' = <<>>
         /\ stray' = {}
         /\ last' = Op("onDataWrittenHandler", <<characteristic_index>> \o data, "void",
                       "Size == 1, setting number of alerts for all categories as 0")
         /\ UNCHANGED <<connected, button_press_count, masks>>
    ELSE LET category == data[2]
             command  == data[1]
         IN \E categoryMask \in getCategoryMaskFromId(category) :
            \E r \in ControlPointOutcomes(command, category, categoryMask) :
                /\ enabled_new_alert_category' = r.en_new
                /\ enabled_unread_alert_category' = r.en_unread
                /\ writes' = r.writes
                /\ stray' = ({category} \ Categories) \cup r.reads
                /\ last' = Op("onDataWrittenHandler", <<characteristic_index>> \o data, "void", r.log)
                /\ UNCHANGED <<connected, button_press_count, alert_status,
                               supported_new_alert_category,
                               supported_unread_alert_category>>

(***************************************************************************)
(* Registration and the published values                                   *)
(***************************************************************************)
\* The 16-bit values the stack can find where the initial values of the two
\* readable characteristics are read: the constructor creates them with the
\* addresses of its locals newCategoryMask and unreadCategoryMask, one byte
\* each, and a length of 2, and has returned when the service is
\* registered.
DeadStackValues == {0, 1, 514}

\* CAlertNotificationService::registerService: GattServer::addService
\* takes the initial value of each characteristic from its buffer.
registerService ==
    /\ ~registered
    /\ registered' = TRUE
    /\ attribute' \in [ReadableCharacteristics -> DeadStackValues]
    /\ writes' = <<>>
    /\ stray' = {}
    /\ last' = Op("registerService", <<>>, "void", "")
    /\ UNCHANGED <<connected, button_press_count, masks, alert_status, queue_vars,
                   outside>>

\* attribute after the GattServer::write calls ws, in their order
RECURSIVE Publish(_, _)
Publish(attr, ws) ==
    IF ws = <<>> THEN attr
    ELSE Publish(IF Head(ws).chr \in DOMAIN attr
                 THEN [attr EXCEPT ![Head(ws).chr] = Head(ws).value]
                 ELSE attr,
                 Tail(ws))

\* A member function of the service together with the effect of its
\* GattServer::write calls in the stack.
InStack(handler) ==
    /\ handler
    /\ attribute' = IF registered THEN Publish(attribute, writes') ELSE attribute
    /\ UNCHANGED registered

\* a member function called directly, without the event queue
Served(handler) == InStack(handler) /\ UNCHANGED <<queue_vars, outside>>

(***************************************************************************)
(* The event queue                                                         *)
(***************************************************************************)
\* an entry of the queue: the function to call and the bytes of a write
Event(call, data) == [call |-> call, data |-> data]

\* an interrupt routine that does the work of the handler itself
buttonPressedISR_RunsHandler ==
    /\ presses < MaxPress
    /\ presses' = presses + 1
    /\ InStack(buttonPressedHandler)
    /\ UNCHANGED <<event_queue, outside>>

\* CAlertNotificationService::buttonPressedISR, on the falling edge of
\* the button: _event_queue.call(buttonPressedHandler).  The button is
\* pressed MaxPress times at most.
buttonPressedISR ==
    /\ presses < MaxPress
    /\ presses' = presses + 1
    /\ event_queue' = Append(event_queue, Event("buttonPressedHandler", <<>>))
    /\ UNCHANGED <<ans_vars, published, outside>>

\* CGap::scheduleBLEEventsToProcess: the stack has an event for the
\* application, and BLE::processEvents is posted to deliver it.
scheduleBLEEventsToProcess(call, data) ==
    /\ Len(event_queue) < MaxQueue
    /\ event_queue' = Append(event_queue, Event(call, data))
    /\ UNCHANGED <<ans_vars, published, presses, outside>>

\* One turn of EventQueue::dispatch_forever on the main thread: the oldest
\* entry is taken off the queue and its function runs to its end.
dispatch ==
    /\ event_queue # <<>>
    /\ event_queue' = Tail(event_queue)
    /\ UNCHANGED <<presses, outside>>
    /\ LET e == Head(event_queue)
       IN CASE e.call = "buttonPressedHandler" -> InStack(buttonPressedHandler)
            [] e.call = "onConnected" -> InStack(onConnected)
            [] e.call = "onDisconnected" -> InStack(onDisconnected)
            [] e.call = "onDataWritten" ->
                 InStack(onDataWrittenHandler(alert_notification_control_point_index,
                                              e.data))

(***************************************************************************)
(* The GATT server and its services (gatt_server.cpp, gatt_service.cpp)    *)
(***************************************************************************)
\* the service objects
ServiceIds == {"s1", "s2"}

\* the user_description arguments: nullptr and a string
UserDescriptions == {"nullptr", "description"}

\* State after CGattServer::CGattServer.
CGattServer ==
    /\ started = FALSE
    /\ services = <<>>
    /\ stack_services = <<>>
    /\ event_handler = FALSE
    /\ delivered = <<>>

\* State after CGattService::CGattService of each service object.
CGattService ==
    /\ service = [s \in ServiceIds |-> FALSE]
    /\ characteristics = [s \in ServiceIds |-> <<>>]
    /\ characteristics_user_descriptions = [s \in ServiceIds |-> <<>>]

\* an operation of the GATT layer: the service state, the queue and the
\* conversions stay as they are
GattOp(op, arg, ret) ==
    /\ last' = Op(op, arg, ret, "")
    /\ writes' = <<>>
    /\ stray' = {}
    /\ UNCHANGED <<connected, button_press_count, masks, alert_status>>
    /\ UNCHANGED <<published, queue_vars, trip, ias_vars, gap_vars>>

\* addCharacteristic making a descriptor list only for a description
addCharacteristic_NoListWithoutDescription(s, user_description) ==
    /\ Len(characteristics[s]) < MaxCharacteristics
    /\ IF service[s]
       THEN /\ GattOp("addCharacteristic", <<s, user_description>>, "false")
            /\ UNCHANGED <<server_vars, service_vars>>
       ELSE /\ characteristics_user_descriptions' =
                  IF user_description # "nullptr"
                  THEN [characteristics_user_descriptions EXCEPT
                          ![s] = Append(@, <<user_description>>)]
                  ELSE characteristics_user_descriptions
            /\ characteristics' = [characteristics EXCEPT
                                     ![s] = Append(@, Len(@) + 1)]
            /\ GattOp("addCharacteristic", <<s, user_description>>, "true")
            /\ UNCHANGED <<server_vars, service>>

\* CGattService::addCharacteristic: a characteristic is the position it is
\* created at; its descriptor list holds the user description, if any.
addCharacteristic(s, user_description) ==
    /\ Len(characteristics[s]) < MaxCharacteristics
    /\ IF service[s]
       THEN /\ GattOp("addCharacteristic", <<s, user_description>>, "false")
            /\ UNCHANGED <<server_vars, service_vars>>
       ELSE /\ characteristics_user_descriptions' =
                  [characteristics_user_descriptions EXCEPT
                     ![s] = Append(@, IF user_description # "nullptr"
                                      THEN <<user_description>>
                                      ELSE <<>>)]
            /\ characteristics' = [characteristics EXCEPT
                                     ![s] = Append(@, Len(@) + 1)]
            /\ GattOp("addCharacteristic", <<s, user_description>>, "true")
            /\ UNCHANGED <<server_vars, service>>

\* CGattService::createService; the assert stops a second call.
createService(s) ==
    /\ ~service[s]
    /\ IF characteristics[s] = <<>>
       THEN /\ GattOp("createService", <<s>>, "BLE_ERROR_INVALID_STATE")
            /\ UNCHANGED <<server_vars, service_vars>>
       ELSE /\ service' = [service EXCEPT ![s] = TRUE]
            /\ GattOp("createService", <<s>>, "BLE_ERROR_NONE")
            /\ UNCHANGED <<server_vars, characteristics,
                           characteristics_user_descriptions>>

\* CGattServer::addService
addService(s) ==
    /\ Len(services) < MaxServices
    /\ IF started
       THEN /\ GattOp("addService", <<s>>, "false")
            /\ UNCHANGED <<server_vars, service_vars>>
       ELSE IF ~service[s]
       THEN /\ GattOp("addService", <<s>>, "false")
            /\ UNCHANGED <<server_vars, service_vars>>
       ELSE /\ services' = Append(services, s)
            /\ GattOp("addService", <<s>>, "true")
            /\ UNCHANGED <<started, stack_services, event_handler, delivered,
                           service_vars>>

\* CGattServer::startServer, the callback of the completed BLE
\* initialisation: every service of the list is registered and the server
\* becomes the event handler of the stack.  _started is not assigned.
startServer ==
    /\ ~event_handler
    /\ stack_services' = services
    /\ event_handler' = TRUE
    /\ GattOp("startServer", <<>>, "void")
    /\ UNCHANGED <<started, services, delivered, service_vars>>

(***************************************************************************)
(* The Immediate Alert Service (immediate_alert_service.cpp)               *)
(***************************************************************************)
IAS_ALERT_LEVEL_NO_ALERT == 0

IAS_ALERT_LEVEL_MEDIUM == 1

IAS_ALERT_LEVEL_HIGH == 2

\* State after CImmediateAlertService::CImmediateAlertService: no alert,
\* and _led.write(1.0).
CImmediateAlertService ==
    /\ alert_level = IAS_ALERT_LEVEL_NO_ALERT
    /\ alert_level_value = IAS_ALERT_LEVEL_NO_ALERT
    /\ led = 100

\* an operation of the Immediate Alert Service
ImmediateAlertOp(op, arg, ws) ==
    /\ last' = Op(op, arg, "void", "")
    /\ writes' = ws
    /\ stray' = {}
    /\ UNCHANGED <<connected, button_press_count, masks, alert_status>>
    /\ UNCHANGED <<published, queue_vars, trip, server_vars, service_vars, gap_vars>>

\* CImmediateAlertService::onConnected
ImmediateAlert_onConnected ==
    /\ alert_level' = IAS_ALERT_LEVEL_NO_ALERT
    /\ alert_level_value' = IAS_ALERT_LEVEL_NO_ALERT
    /\ ImmediateAlertOp("CImmediateAlertService::onConnected", <<>>,
                        << setCharacteristicValue(0, 1, IAS_ALERT_LEVEL_NO_ALERT) >>)
    /\ UNCHANGED led

\* CImmediateAlertService::onDisconnected
ImmediateAlert_onDisconnected ==
    /\ alert_level' = IAS_ALERT_LEVEL_MEDIUM
    /\ alert_level_value' = IAS_ALERT_LEVEL_MEDIUM
    /\ ImmediateAlertOp("CImmediateAlertService::onDisconnected", <<>>,
                        << setCharacteristicValue(0, 1, IAS_ALERT_LEVEL_MEDIUM) >>)
    /\ UNCHANGED led

\* CImmediateAlertService::onDataWrittenHandler for the alert-level
\* characteristic: the first byte written is the level, the duty cycle of
\* the LED is set for a level of 0, 1 or 2.
ImmediateAlert_onDataWrittenHandler(data) ==
    LET level == data[1]
    IN  /\ led' = IF level = IAS_ALERT_LEVEL_NO_ALERT THEN 100
                  ELSE IF level = IAS_ALERT_LEVEL_MEDIUM THEN 75
                  ELSE IF level = IAS_ALERT_LEVEL_HIGH THEN 10
                  ELSE led
        /\ ImmediateAlertOp("CImmediateAlertService::onDataWrittenHandler", data, <<>>)
        /\ UNCHANGED <<alert_level, alert_level_value>>

(***************************************************************************)
(* The connection layer (gap.cpp, secure_gap.cpp)                          *)
(***************************************************************************)
\* the number of a service object
ServiceNo == [s \in ServiceIds |-> IF s = "s1" THEN 1 ELSE 2]

\* GattCharacteristic::getValueHandle of characteristic k of service s: the
\* stack gives every characteristic of a service a handle of its own when
\* registerService hands the service over; before, the handle is
\* GattAttribute::INVALID_HANDLE, 0.
getValueHandle(s, k) ==
    IF \E i \in DOMAIN stack_services : stack_services[i] = s
    THEN 16 * ServiceNo[s] + k
    ELSE 0

\* the loop of getCharacteristicWithValueHandle and of
\* getCharacteristicUserDescription from position k on: the position of the
\* first characteristic with the value handle, 0 when there is none
RECURSIVE FirstWithValueHandle(_, _, _)
FirstWithValueHandle(s, value_handle, k) ==
    IF k > Len(characteristics[s]) THEN 0
    ELSE IF getValueHandle(s, characteristics[s][k]) = value_handle THEN k
    ELSE FirstWithValueHandle(s, value_handle, k + 1)

\* CGattService::getCharacteristicWithValueHandle; 0 is nullptr
getCharacteristicWithValueHandle(s, value_handle) ==
    LET k == FirstWithValueHandle(s, value_handle, 1)
    IN  IF k = 0 THEN 0 ELSE characteristics[s][k]

\* CGattService::getCharacteristicUserDescription: descriptions.at(0) of
\* the characteristic found throws std::out_of_range when its descriptor
\* list is empty.
getCharacteristicUserDescription(s, value_handle) ==
    LET index == FirstWithValueHandle(s, value_handle, 1)
    IN  IF index = 0 THEN "nullptr"
        ELSE IF characteristics_user_descriptions[s][index] = <<>>
        THEN "std::out_of_range"
        ELSE characteristics_user_descriptions[s][index][1]

\* one call of onDataWrittenHandler: the entry of _services it is made on,
\* the characteristic and the bytes passed
Delivery(i, characteristic, data) ==
    [at |-> i, service |-> services[i], characteristic |-> characteristic, data |-> data]

\* the loop of onDataWritten from entry i of _services on: the calls of
\* onDataWrittenHandler made, and how the function ends
RECURSIVE ServeWrite(_, _, _)
ServeWrite(value_handle, data, i) ==
    IF i > Len(services) THEN [delivered |-> <<>>, ret |-> "void"]
    ELSE LET characteristic == getCharacteristicWithValueHandle(services[i], value_handle)
             user_desc == getCharacteristicUserDescription(services[i], value_handle)
         IN IF characteristic = 0 THEN ServeWrite(value_handle, data, i + 1)
            ELSE IF user_desc = "std::out_of_range"
            THEN [delivered |-> <<>>, ret |-> "std::out_of_range"]
            ELSE IF user_desc = "nullptr" THEN ServeWrite(value_handle, data, i + 1)
            ELSE [delivered |-> << Delivery(i, characteristic, data) >>, ret |-> "void"]

\* CGattServer::onDataWritten for a write event of the stack; the stack
\* has events for the server once startServer has made it the handler.
onDataWritten(value_handle, data) ==
    /\ event_handler
    /\ LET r == ServeWrite(value_handle, data, 1)
       IN /\ delivered' = r.delivered
          /\ GattOp("onDataWritten", <<value_handle>> \o data, r.ret)
    /\ UNCHANGED <<started, services, stack_services, event_handler, service_vars>>

\* State after CSecureGap::CSecureGap in main.cpp: the stack is not
\* initialised, nothing is scheduled.  _led_event_id is not initialised by
\* the constructor and is not read before onBLEInitCompleteHandler has
\* assigned it; 0 is no event.
CGap ==
    /\ ble_init = "pending"
    /\ advertising = FALSE
    /\ peer = FALSE
    /\ link_security = "none"
    /\ led_event_id = 0
    /\ led_events = {}
    /\ gap_led = 0

\* the status of a connection-complete event, and the values of a
\* ble_error_t
ConnectionStatus == {"BLE_ERROR_NONE", "BLE_ERROR_INTERNAL_STACK_FAILURE"}

\* The values the local error of CSecureGap::onConnectionComplete can hold
\* where it is tested: it is declared without an initialiser and nothing
\* is assigned to it before the test.
UninitialisedError == {"BLE_ERROR_NONE", "BLE_ERROR_UNSPECIFIED"}

\* an operation of the connection layer
GapOp(op, arg, log) ==
    /\ last' = Op(op, arg, "void", log)
    /\ stray' = {}
    /\ UNCHANGED <<masks, published, presses, trip, server_vars, service_vars, led>>

\* _led_event_id = _event_queue.call_every(500ms, this, &CGap::toggleLED):
\* an event with an id not used before is scheduled.
ScheduleToggleLED ==
    /\ led_event_id' = led_event_id + 1
    /\ led_events' = led_events \cup {led_event_id + 1}

\* CGattServer::onConnected with the _services of main.cpp, the Immediate
\* Alert Service and the Alert Notification Service: onConnected of each.
CGattServer_onConnected ==
    /\ alert_level' = IAS_ALERT_LEVEL_NO_ALERT
    /\ alert_level_value' = IAS_ALERT_LEVEL_NO_ALERT
    /\ writes' = << setCharacteristicValue(0, 1, IAS_ALERT_LEVEL_NO_ALERT) >>
    /\ alert_status' = clearAlertsOfCategory(alert_status, ANS_TYPE_ALL_ALERTS)
    /\ button_press_count' = 0
    /\ connected' = TRUE

\* CGattServer::onDisconnected with the _services of main.cpp
CGattServer_onDisconnected ==
    /\ alert_level' = IAS_ALERT_LEVEL_MEDIUM
    /\ alert_level_value' = IAS_ALERT_LEVEL_MEDIUM
    /\ writes' = << setCharacteristicValue(0, 1, IAS_ALERT_LEVEL_MEDIUM) >>
    /\ connected' = FALSE
    /\ alert_status' = clearAlertsOfCategory(alert_status, ANS_TYPE_ALL_ALERTS)
    /\ UNCHANGED button_press_count

\* CSecureGap::onBLEInitCompleteHandler, which ends in
\* CGap::onBLEInitCompleteHandler: an initialisation error ends it at
\* once; else the callback set in main.cpp, CGattServer::startServer, is
\* posted to the event queue, the LED event is scheduled and advertising
\* starts.  The calls into the stack are taken to succeed.
onBLEInitCompleteHandler(error) ==
    /\ ble_init = "pending"
    /\ IF error # "BLE_ERROR_NONE"
       THEN /\ ble_init' = "failed"
            /\ GapOp("onBLEInitCompleteHandler", <<error>>,
                     "Error during the initialisation")
            /\ writes' = <<>>
            /\ UNCHANGED <<connected, button_press_count, alert_status,
                           event_queue, alert_level, alert_level_value,
                           advertising, peer, link_security, led_event_id,
                           led_events, gap_led>>
       ELSE /\ ble_init' = "complete"
            /\ event_queue' = Append(event_queue, Event("startServer", <<>>))
            /\ ScheduleToggleLED
            /\ advertising' = TRUE
            /\ GapOp("onBLEInitCompleteHandler", <<error>>, "Device is advertising")
            /\ writes' = <<>>
            /\ UNCHANGED <<connected, button_press_count, alert_status,
                           alert_level, alert_level_value,
                           peer, link_security, gap_led>>

\* CGap::toggleLED, run by a scheduled LED event when its period is over
toggleLED ==
    /\ led_events # {}
    /\ gap_led' = 1 - gap_led
    /\ GapOp("toggleLED", <<>>, "LED toggled")
    /\ writes' = <<>>
    /\ UNCHANGED <<connected, button_press_count, alert_status, event_queue,
                   alert_level, alert_level_value,
                   ble_init, advertising, peer, link_security, led_event_id,
                   led_events>>

\* CSecureGap::onConnectionComplete for an event of the stack with the
\* status given.  A connection that is complete ends advertising and is
\* the link to the peer.  The handler tests its local error, not the
\* status; past the test it sets the link security and calls
\* CGap::onConnectionComplete: the on_connected callback of main.cpp, the
\* LED event cancelled, the LED pin written.
onConnectionComplete(status) ==
    /\ ble_init = "complete"
    /\ ~peer
    /\ peer' = (status = "BLE_ERROR_NONE")
    /\ advertising' = IF status = "BLE_ERROR_NONE" THEN FALSE ELSE advertising
    /\ \E error \in UninitialisedError :
         IF error # "BLE_ERROR_NONE"
         THEN /\ GapOp("onConnectionComplete", <<status>>, "returned")
              /\ writes' = <<>>
              /\ UNCHANGED <<connected, button_press_count, alert_status,
                             alert_level, alert_level_value,
                             link_security, led_event_id, led_events, gap_led>>
         ELSE /\ link_security' = "SECURITY_MODE_ENCRYPTION_WITH_MITM"
              /\ CGattServer_onConnected
              /\ led_events' = led_events \ {led_event_id}
              /\ gap_led' = 0
              /\ GapOp("onConnectionComplete", <<status>>, "Device is connected")
              /\ UNCHANGED led_event_id
    /\ UNCHANGED <<ble_init, event_queue>>

\* CGap::onDisconnectionComplete, which CSecureGap does not override: the
\* link has ended; the on_disconnected callback of main.cpp, a LED event
\* scheduled, advertising started.
onDisconnectionComplete ==
    /\ ble_init = "complete"
    /\ peer
    /\ led_event_id < MaxLedEvents
    /\ peer' = FALSE
    /\ link_security' = "none"
    /\ CGattServer_onDisconnected
    /\ ScheduleToggleLED
    /\ advertising' = TRUE
    /\ GapOp("onDisconnectionComplete", <<>>, "Device is disconnected")
    /\ UNCHANGED <<ble_init, event_queue, gap_led>>

(***************************************************************************)
(* Specification                                                           *)
(***************************************************************************)
\* The state in which the specifications of the service start: the service
\* has been constructed and no conversion has been called.
Constructed ==
    /\ Init
    /\ trip = <<>>
    /\ CGattServer
    /\ CGattService
    /\ CImmediateAlertService
    /\ CGap

\* the written payloads: no byte, one byte, a command, three bytes
Payloads ==
    {<<>>} \cup {<<b>> : b \in OneByte}
           \cup {<<command, category>> : command \in CommandBytes, category \in CategoryBytes}
           \cup {<<0, 0, 0>>}

\* the commands of a peer that only subscribes
EnablePayloads ==
    {<<command, category>> :
        command \in {ANS_ENABLE_NEW_INCOMING_ALERT_NOTIFICATION,
                     ANS_ENABLE_UNREAD_CATEGORY_STATUS_NOTIFICATION},
        category \in CategoryIds}

CountBelow(category, max) ==
    category \in Categories => alert_status[category].count < max

\* The service as a class: an application that calls every public member
\* function in any order, and a peer that connects, subscribes, clears the
\* counters and disconnects.
Next ==
    \/ Served(onConnected)
    \/ Served(onDisconnected)
    \/ Served(\E m \in MaskArgs : setSupportedNewAlertsCategory(m))
    \/ Served(\E m \in MaskArgs : setSupportedUnreadAlertsCategory(m))
    \/ Served(\E c \in CategoryIds : addSupportedNewAlertsCategory(c))
    \/ Served(\E c \in CategoryIds : addSupportedUnreadAlertsCategory(c))
    \/ Served(\E c \in CategoryIds : removeSupportedNewAlertsCategory(c))
    \/ Served(\E c \in CategoryIds : removeSupportedUnreadAlertsCategory(c))
    \/ Served(\E c \in CategoryIds : CountBelow(c, MaxCount) /\ addNewAlertToCategory(c))
    \/ Served(\E data \in EnablePayloads \cup {<<0>>} :
                 onDataWrittenHandler(alert_notification_control_point_index, data))

Spec == Constructed /\ [][Next]_vars

\* The service as main.cpp wires it: the supported categories stay as
\* constructed, alerts come from the button, and the peer writes any payload
\* to the control point.
NextFirmware ==
    \/ Served(onConnected)
    \/ Served(onDisconnected)
    \/ Served(/\ button_press_count < MaxPress
              /\ CountBelow(ANS_TYPE_SIMPLE_ALERT, MaxCount)
              /\ buttonPressedHandler)
    \/ Served(\E data \in Payloads :
                 onDataWrittenHandler(alert_notification_control_point_index, data))

SpecFirmware == Constructed /\ [][NextFirmware]_vars

\* the payloads of a peer that clears, subscribes, asks for a notification
\* and sends an unknown command
CounterPayloads == {<<0>>, <<0, 0>>, <<4, 0>>, <<6, 0>>}

\* The counters over their whole range: alerts of category 0 are raised
\* without bound, so that its uint8_t counter passes 255, while each
\* operation that clears counters takes part.
NextCounters ==
    \/ Served(onConnected)
    \/ Served(onDisconnected)
    \/ Served(setSupportedNewAlertsCategory(5))
    \/ Served(addSupportedNewAlertsCategory(2))
    \/ Served(removeSupportedNewAlertsCategory(2))
    \/ Served(setSupportedUnreadAlertsCategory(5))
    \/ Served(addSupportedUnreadAlertsCategory(2))
    \/ Served(removeSupportedUnreadAlertsCategory(2))
    \/ Served(addNewAlertToCategory(0))
    \/ Served(CountBelow(2, MaxCount) /\ addNewAlertToCategory(2))
    \/ Served(\E data \in CounterPayloads :
                 onDataWrittenHandler(alert_notification_control_point_index, data))

SpecCounters == Constructed /\ [][NextCounters]_vars

\* The service and the attribute table of the stack: the application
\* configures the supported categories before and after the service is
\* registered, and a peer connects and disconnects.
NextAttributes ==
    \/ registerService
    \/ Served(onConnected)
    \/ Served(onDisconnected)
    \/ Served(\E m \in MaskArgs : setSupportedNewAlertsCategory(m))
    \/ Served(\E m \in MaskArgs : setSupportedUnreadAlertsCategory(m))
    \/ Served(\E c \in CategoryIds : addSupportedNewAlertsCategory(c))
    \/ Served(\E c \in CategoryIds : addSupportedUnreadAlertsCategory(c))
    \/ Served(\E c \in CategoryIds : removeSupportedNewAlertsCategory(c))
    \/ Served(\E c \in CategoryIds : removeSupportedUnreadAlertsCategory(c))

SpecAttributes == Constructed /\ [][NextAttributes]_vars

\* the events the stack delivers: a peer connects, disconnects and
\* subscribes to the new alerts of category 0
StackEvents ==
    {Event("onConnected", <<>>), Event("onDisconnected", <<>>),
     Event("onDataWritten", <<ANS_ENABLE_NEW_INCOMING_ALERT_NOTIFICATION,
                              ANS_TYPE_SIMPLE_ALERT>>)}

\* The service behind the event queue, as in the firmware: the button
\* interrupt and the stack post calls, the main thread dispatches them.
NextQueue ==
    \/ buttonPressedISR
    \/ \E e \in StackEvents : scheduleBLEEventsToProcess(e.call, e.data)
    \/ dispatch

\* CGap::run dispatches forever, so a posted call is not left waiting.
SpecQueue == Constructed /\ [][NextQueue]_vars /\ WF_vars(dispatch)

\* the CategoryId arguments of the conversions: every value of a byte
CategoryArgs == 0..255

\* a call of getCategoryMaskFromId with the value last obtained
CallMaskFromId ==
    /\ Len(trip) \in {1, 3}
    /\ \E mask \in getCategoryMaskFromId(trip[Len(trip)]) :
          trip' = Append(trip, mask)
    /\ UNCHANGED <<ans_vars, published, queue_vars, server_vars, service_vars, ias_vars,
                   gap_vars>>

\* a call of getCategoryIdFromMask with the mask last obtained
CallIdFromMask ==
    /\ Len(trip) = 2
    /\ trip' = Append(trip, getCategoryIdFromMask(trip[2]))
    /\ UNCHANGED <<ans_vars, published, queue_vars, server_vars, service_vars, ias_vars,
                   gap_vars>>

\* The two conversions as functions: a CategoryId is drawn, converted to
\* its mask, back to a CategoryId and to a mask again.
InitMasks ==
    /\ Init
    /\ trip \in {<<category>> : category \in CategoryArgs}
    /\ CGattServer
    /\ CGattService
    /\ CImmediateAlertService
    /\ CGap

NextMasks == CallMaskFromId \/ CallIdFromMask

SpecMasks == InitMasks /\ [][NextMasks]_vars

\* The GATT layer as a library: an application builds services and a
\* server, calling the member functions in any order.
NextGatt ==
    \/ \E s \in ServiceIds, d \in UserDescriptions : addCharacteristic(s, d)
    \/ \E s \in ServiceIds : createService(s)
    \/ \E s \in ServiceIds : addService(s)
    \/ startServer

SpecGatt == Constructed /\ [][NextGatt]_vars

\* the writes of a peer to the alert-level characteristic: one or two bytes
LevelPayloads ==
    {<<b>> : b \in LevelBytes} \cup {<<b, c>> : b \in LevelBytes, c \in LevelBytes}

\* The Immediate Alert Service with a peer that connects, writes alert
\* levels and disconnects.
NextImmediateAlert ==
    \/ ImmediateAlert_onConnected
    \/ ImmediateAlert_onDisconnected
    \/ \E data \in LevelPayloads : ImmediateAlert_onDataWrittenHandler(data)

SpecImmediateAlert == Constructed /\ [][NextImmediateAlert]_vars

(***************************************************************************)
(* Properties                                                              *)
(***************************************************************************)
\* arguments of setSupported*AlertsCategory with and without a bit above
\* the ten categories
WideMaskArgs == {0, 1, 1024, 1025}

\* enable and disable commands for a category in range, the byte 10 and ALL
BitPayloads ==
    {<<command, category>> :
        command \in ANS_ENABLE_NEW_INCOMING_ALERT_NOTIFICATION ..
                    ANS_DISABLE_UNREAD_CATEGORY_STATUS_NOTIFICATION,
        category \in {0, 10, ANS_TYPE_ALL_ALERTS}}

\* The bits of the four masks: an application that sets the supported masks
\* to any uint16_t value and a peer that enables and disables categories
\* with any category byte.
NextMaskBits ==
    \/ Served(onConnected)
    \/ Served(onDisconnected)
    \/ Served(\E m \in WideMaskArgs : setSupportedNewAlertsCategory(m))
    \/ Served(\E m \in WideMaskArgs : setSupportedUnreadAlertsCategory(m))
    \/ Served(\E data \in BitPayloads :
                 onDataWrittenHandler(alert_notification_control_point_index, data))

SpecMaskBits == Constructed /\ [][NextMaskBits]_vars

\* the characteristic of a write as onDataWrittenHandler finds it: -1 for a
\* characteristic of another service, else its position in _characteristics
CharacteristicIndices == -1 .. alert_notification_control_point_index

\* payloads of every handled length among the writes to any characteristic
AnyPayloads == {<<>>, <<0>>, <<0, 0>>, <<1, 0>>, <<4, 0>>, <<5, ANS_TYPE_ALL_ALERTS>>,
                <<0, 0, 0>>}

\* The service under writes to every characteristic: the server hands
\* onDataWrittenHandler the characteristic that was written, which need not
\* be the control point.
NextWrites ==
    \/ Served(onConnected)
    \/ Served(onDisconnected)
    \/ Served(/\ button_press_count < MaxPress
              /\ CountBelow(ANS_TYPE_SIMPLE_ALERT, MaxCount)
              /\ buttonPressedHandler)
    \/ Served(\E characteristic_index \in CharacteristicIndices, data \in AnyPayloads :
                 onDataWrittenHandler(characteristic_index, data))

SpecWrites == Constructed /\ [][NextWrites]_vars

\* the attribute handles of write events: the value handles of the
\* characteristics of the services and a handle of the stack's own services
WriteHandles ==
    {3} \cup {16 * ServiceNo[s] + k : s \in ServiceIds, k \in 1..MaxCharacteristics}

\* the bytes of write events
WriteData == {<<0>>, <<1, 2>>}

\* the program has not been ended by an exception nothing catches
Running == last.ret # "std::out_of_range"

\* The server in use: an application builds services and the server, the
\* stack is started and delivers the writes of a peer.
NextServer ==
    \/ Running /\ \E s \in ServiceIds, d \in UserDescriptions : addCharacteristic(s, d)
    \/ Running /\ \E s \in ServiceIds : createService(s)
    \/ Running /\ \E s \in ServiceIds : addService(s)
    \/ Running /\ startServer
    \/ Running /\ \E h \in WriteHandles, data \in WriteData : onDataWritten(h, data)

SpecServer == Constructed /\ [][NextServer]_vars

\* The connection layer of the firmware: the stack completes its
\* initialisation, peers connect and disconnect, and the scheduled LED
\* events run.
NextGap ==
    \/ \E error \in ConnectionStatus : onBLEInitCompleteHandler(error)
    \/ \E status \in ConnectionStatus : onConnectionComplete(status)
    \/ onDisconnectionComplete
    \/ toggleLED

SpecGap == Constructed /\ [][NextGap]_vars

\* the uint16_t arguments of getCategoryIdFromMask
MaskValues == 0..65535

\* a call of getCategoryIdFromMask with the mask drawn
CallIdOfMask ==
    /\ Len(trip) = 1
    /\ trip' = Append(trip, getCategoryIdFromMask(trip[1]))
    /\ UNCHANGED <<ans_vars, published, queue_vars, server_vars, service_vars, ias_vars,
                   gap_vars>>

\* getCategoryIdFromMask as a function: a mask is drawn and converted.
InitIds ==
    /\ Init
    /\ trip \in {<<mask>> : mask \in MaskValues}
    /\ CGattServer
    /\ CGattService
    /\ CImmediateAlertService
    /\ CGap

NextIds == CallIdOfMask

SpecIds == InitIds /\ [][NextIds]_vars

Mutators == {"setSupportedNewAlertsCategory", "addSupportedNewAlertsCategory",
             "removeSupportedNewAlertsCategory", "setSupportedUnreadAlertsCategory",
             "addSupportedUnreadAlertsCategory", "removeSupportedUnreadAlertsCategory"}

\* the notifications among the writes of the last operation
Pushed(ws, characteristic) == SelectSeq(ws, LAMBDA w : w.chr = characteristic)

Notifications(ws) ==
    SelectSeq(ws, LAMBDA w : w.chr \in {new_alert_index, unread_alert_status_index})

\* C1: while a peer is connected, every call of one of the six configuration
\* mutators, whatever its argument, returns false and leaves the four
\* bitmasks and every counter unchanged.
C1_MutatorsRejectedWhileConnected ==
    [][(connected /\ last'.op \in Mutators)
         => /\ last'.ret = "false"
            /\ UNCHANGED masks
            /\ UNCHANGED alert_status]_vars

\* a mutator has been rejected during a connection in which a category is
\* enabled and a counter is not zero
C1_Witness ==
    /\ connected
    /\ last.op \in Mutators
    /\ last.ret = "false"
    /\ enabled_new_alert_category # 0
    /\ \E c \in Categories : alert_status[c].count > 0

ControlPoint(l, data) ==
    /\ l.op = "onDataWrittenHandler"
    /\ l.arg = <<alert_notification_control_point_index>> \o data

\* the concrete category bytes among the category bytes of the model
ConcreteBytes == CategoryBytes \ {ANS_TYPE_ALL_ALERTS}

IsSet(mask, c) == Bit(mask, c) = 1

\* C3 as stated: after an enable command for category c, c is enabled on
\* the command's axis if and only if c was supported on that axis when the
\* command arrived; an unsupported c is reported and no bitmask changes.
C3_EnabledIffSupported ==
    [][\A c \in ConcreteBytes :
         /\ ControlPoint(last', <<ANS_ENABLE_NEW_INCOMING_ALERT_NOTIFICATION, c>>)
              => /\ IsSet(enabled_new_alert_category', c)
                      <=> IsSet(supported_new_alert_category, c)
                 /\ ~IsSet(supported_new_alert_category, c)
                      => (last'.log = "Category not supported." /\ UNCHANGED masks)
         /\ ControlPoint(last', <<ANS_ENABLE_UNREAD_CATEGORY_STATUS_NOTIFICATION, c>>)
              => /\ IsSet(enabled_unread_alert_category', c)
                      <=> IsSet(supported_unread_alert_category, c)
                 /\ ~IsSet(supported_unread_alert_category, c)
                      => (last'.log = "Category not supported." /\ UNCHANGED masks)]_vars

\* C3 amended: after an enable command for category c, c is enabled on the
\* command's axis if c was supported on that axis when the command arrived;
\* an unsupported c is reported and no bitmask changes, so that c is then
\* enabled exactly if it was enabled before the command.
C3_EnabledIfSupportedElseUnchanged ==
    [][\A c \in ConcreteBytes :
         /\ ControlPoint(last', <<ANS_ENABLE_NEW_INCOMING_ALERT_NOTIFICATION, c>>)
              => /\ IsSet(supported_new_alert_category, c)
                      => IsSet(enabled_new_alert_category', c)
                 /\ ~IsSet(supported_new_alert_category, c)
                      => (last'.log = "Category not supported." /\ UNCHANGED masks)
         /\ ControlPoint(last', <<ANS_ENABLE_UNREAD_CATEGORY_STATUS_NOTIFICATION, c>>)
              => /\ IsSet(supported_unread_alert_category, c)
                      => IsSet(enabled_unread_alert_category', c)
                 /\ ~IsSet(supported_unread_alert_category, c)
                      => (last'.log = "Category not supported." /\ UNCHANGED masks)]_vars

\* an enable command was refused for a category that is enabled since
\* before the command on an axis that does not support it
C3_Witness ==
    \E c \in ConcreteBytes :
        /\ ControlPoint(last, <<ANS_ENABLE_NEW_INCOMING_ALERT_NOTIFICATION, c>>)
        /\ last.log = "Category not supported."
        /\ IsSet(enabled_new_alert_category, c)
        /\ ~IsSet(supported_new_alert_category, c)

\* C4: a control-point write of length 0 or of length 3 and more changes no
\* bitmask and no counter and pushes no notification.
C4_BadLengthRejected ==
    [][(/\ last'.op = "onDataWrittenHandler"
        /\ last'.arg[1] = alert_notification_control_point_index
        /\ Len(last'.arg) - 1 \notin {1, 2})
         => /\ UNCHANGED masks
            /\ UNCHANGED alert_status
            /\ Notifications(writes') = <<>>]_vars

\* a write of a bad length was rejected while a counter is not zero
C4_Witness ==
    /\ ControlPoint(last, <<0, 0, 0>>)
    /\ last.log = "Size < 1 or size > 2, not processing command."
    /\ \E c \in Categories : alert_status[c].count > 0

\* C5: a 1-byte control-point write, whatever the byte, leaves every counter
\* at 0, pushes no notification and changes no bitmask.
C5_OneByteClearsAll ==
    [][\A b \in OneByte :
         ControlPoint(last', <<b>>)
           => /\ \A c \in Categories : alert_status'[c].count = 0
              /\ Notifications(writes') = <<>>
              /\ UNCHANGED masks]_vars

\* a 1-byte write was handled while categories are enabled on both axes
C5_Witness ==
    /\ \E b \in OneByte : ControlPoint(last, <<b>>)
    /\ last.log = "Size == 1, setting number of alerts for all categories as 0"
    /\ enabled_new_alert_category # 0
    /\ enabled_unread_alert_category # 0

\* the values carried by a sequence of writes
Values(ws) == [i \in 1..Len(ws) |-> ws[i].value]

\* the counters of the categories c..9 enabled in a mask, in ascending order
RECURSIVE CountsOfEnabled(_, _, _)
CountsOfEnabled(enabled, status, c) ==
    IF c >= ANS_ALERT_CATEGORY_COUNT THEN <<>>
    ELSE (IF IsSet(enabled, c) THEN <<status[c].count>> ELSE <<>>)
             \o CountsOfEnabled(enabled, status, c + 1)

\* C6 as stated: the command [4, 0xFF] pushes on the new-alert channel one
\* notification per category of 0..9 enabled in enabledNew, in ascending
\* order, each carrying the counter of its category; it pushes nothing else
\* and changes no bitmask and no counter.
C6_NotifyAllCarriesCounters ==
    [][ControlPoint(last', <<ANS_NOTIFY_NEW_INCOMING_ALERT_IMMEDIATELY, ANS_TYPE_ALL_ALERTS>>)
         => /\ Values(Pushed(writes', new_alert_index))
                 = CountsOfEnabled(enabled_new_alert_category, alert_status, 0)
            /\ Pushed(writes', unread_alert_status_index) = <<>>
            /\ UNCHANGED masks
            /\ UNCHANGED alert_status]_vars

\* the last operation was addNewAlertToCategory(c)
AddedAlert(l, c) == l.op = "addNewAlertToCategory" /\ l.arg = <<c>>

\* C7 as stated: an alert raised for a category c of supportedNew pushes the
\* unread-status notification whenever c is in enabledUnread and the
\* new-alert notification whenever c is in enabledNew; with c in
\* enabledUnread and not in enabledNew it pushes exactly one notification,
\* on the unread-status channel.
C7_PushesGatedIndependently ==
    [][\A c \in CategoryIds :
         (AddedAlert(last', c) /\ IsSet(supported_new_alert_category, c))
           => /\ IsSet(enabled_unread_alert_category, c)
                   => Len(Pushed(writes', unread_alert_status_index)) = 1
              /\ IsSet(enabled_new_alert_category, c)
                   => Len(Pushed(writes', new_alert_index)) = 1
              /\ (IsSet(enabled_unread_alert_category, c)
                    /\ ~IsSet(enabled_new_alert_category, c))
                   => /\ Len(Notifications(writes')) = 1
                      /\ Notifications(writes')[1].chr = unread_alert_status_index]_vars

\* C8: addNewAlertToCategory(c) for a category c that is not in supportedNew
\* returns false, changes no counter and no bitmask and pushes no
\* notification.
C8_UnsupportedAlertRejected ==
    [][\A c \in CategoryIds :
         (AddedAlert(last', c) /\ ~IsSet(supported_new_alert_category, c))
           => /\ last'.ret = "false"
              /\ UNCHANGED alert_status
              /\ UNCHANGED masks
              /\ Notifications(writes') = <<>>]_vars

\* an alert was rejected for a category that is enabled on both axes, has no
\* support, while the other category holds alerts
C8_Witness ==
    \E c \in CategoryIds :
        /\ AddedAlert(last, c)
        /\ last.ret = "false"
        /\ ~IsSet(supported_new_alert_category, c)
        /\ IsSet(enabled_new_alert_category, c)
        /\ IsSet(enabled_unread_alert_category, c)
        /\ \E d \in Categories : alert_status[d].count > 0

C10_DisableIfSupported ==
    [][\A c \in ConcreteBytes :
         /\ ControlPoint(last', <<ANS_DISABLE_NEW_INCOMING_ALERT_NOTIFICATION, c>>)
              => /\ IsSet(supported_new_alert_category, c)
                      => ~IsSet(enabled_new_alert_category', c)
                 /\ ~IsSet(supported_new_alert_category, c)
                      => /\ enabled_new_alert_category' = enabled_new_alert_category
                         /\ last'.log = "Category not supported."
                         /\ Notifications(writes') = <<>>
         /\ ControlPoint(last', <<ANS_DISABLE_UNREAD_CATEGORY_STATUS_NOTIFICATION, c>>)
              => /\ IsSet(supported_unread_alert_category, c)
                      => ~IsSet(enabled_unread_alert_category', c)
                 /\ ~IsSet(supported_unread_alert_category, c)
                      => /\ enabled_unread_alert_category' = enabled_unread_alert_category
                         /\ last'.log = "Category not supported."
                         /\ Notifications(writes') = <<>>]_vars

\* a supported category was disabled while an unsupported one stays enabled
C10_Witness ==
    /\ ControlPoint(last, <<ANS_DISABLE_NEW_INCOMING_ALERT_NOTIFICATION, 0>>)
    /\ last.log = "Supported and now disabled."
    /\ ~IsSet(enabled_new_alert_category, 0)
    /\ IsSet(enabled_new_alert_category, 2)
    /\ ~IsSet(supported_new_alert_category, 2)

\* the category bytes that name one of the ten categories
InRangeBytes == CategoryBytes \cap Categories

\* C11: the command [4, c] for a category c of 0..9 pushes exactly one
\* new-alert notification carrying the counter of c when c is in enabledNew
\* and pushes nothing otherwise; it changes no bitmask and no counter.
C11_NotifyNewOfCategory ==
    [][\A c \in InRangeBytes :
         ControlPoint(last', <<ANS_NOTIFY_NEW_INCOMING_ALERT_IMMEDIATELY, c>>)
           => /\ IsSet(enabled_new_alert_category, c)
                   => /\ Len(Notifications(writes')) = 1
                      /\ Notifications(writes')[1].chr = new_alert_index
                      /\ Notifications(writes')[1].value = alert_status[c].count
              /\ ~IsSet(enabled_new_alert_category, c)
                   => Notifications(writes') = <<>>
              /\ UNCHANGED masks
              /\ UNCHANGED alert_status]_vars

\* the counter of category 0 was notified on request while it differs from
\* the number of button presses
C11_Witness ==
    /\ ControlPoint(last, <<ANS_NOTIFY_NEW_INCOMING_ALERT_IMMEDIATELY, 0>>)
    /\ alert_status[0].count = 1
    /\ button_press_count = 2
    /\ Values(writes) = <<1>>
    /\ writes[1].chr = new_alert_index

\* the counters that "the counter of category c" can denote: the counter of
\* c, and for a byte that names no single category the counter of any
CounterOf(status, c) ==
    IF c \in Categories THEN {status[c].count}
    ELSE {status[d].count : d \in Categories}

\* category byte c is enabled in a mask, by the test of the notify cases
EnabledByte(mask, c) ==
    \E categoryMask \in getCategoryMaskFromId(c) : BitAnd(mask, categoryMask) # 0

\* C12 as stated: the command [5, categoryId] pushes the counter of
\* categoryId on the unread-status channel if and only if categoryId is
\* enabled on the unread axis, pushes nothing otherwise, and changes no
\* bitmask and no counter.
C12_NotifyUnreadOfCategory ==
    [][\A c \in CategoryBytes :
         ControlPoint(last', <<ANS_NOTIFY_UNREAD_CATEGORY_STATUS_IMMEDIATELY, c>>)
           => /\ EnabledByte(enabled_unread_alert_category, c)
                   => /\ Len(Notifications(writes')) = 1
                      /\ Notifications(writes')[1].chr = unread_alert_status_index
                      /\ Notifications(writes')[1].value \in CounterOf(alert_status, c)
              /\ ~EnabledByte(enabled_unread_alert_category, c)
                   => Notifications(writes') = <<>>
              /\ UNCHANGED masks
              /\ UNCHANGED alert_status]_vars

\* the value of the two bytes {category, count} of an alert_status_t, the
\* first byte being the low one
StatusRecord(category, count) == category + 256 * count

\* C13 as stated: every notification pushed on the new-alert or the
\* unread-status channel carries the two-field payload {category, count} of
\* one category, count being the counter of that category.
C13_NotificationsCarryCategoryAndCount ==
    [][\A i \in 1..Len(Notifications(writes')) :
         LET w == Notifications(writes')[i]
         IN  /\ w.size = 2
             /\ \E c \in Categories :
                    w.value = StatusRecord(c, alert_status'[c].count)]_vars

\* C14 as stated: addNewAlertToCategory(c) returns true exactly when the
\* counter of c was incremented, and false exactly when it was not.
C14_ReturnsTrueIffAdded ==
    [][\A c \in CategoryIds :
         AddedAlert(last', c)
           => (last'.ret = "true"
                 <=> alert_status'[c].count = ToU8(alert_status[c].count + 1))]_vars

\* the last operation was a control-point write of n bytes
ControlPointOfSize(l, n) ==
    /\ l.op = "onDataWrittenHandler"
    /\ l.arg[1] = alert_notification_control_point_index
    /\ Len(l.arg) = n + 1

\* the last operation was an accepted configuration mutator whose argument
\* covers category c
AcceptedCovering(l, c) ==
    /\ l.op \in Mutators
    /\ l.ret = "true"
    /\ IF l.op \in {"setSupportedNewAlertsCategory", "setSupportedUnreadAlertsCategory"}
       THEN IsSet(l.arg[1], c)
       ELSE l.arg[1] \in {c, ANS_TYPE_ALL_ALERTS}

\* the last operation was an explicit clear of the counter of c
ExplicitClear(l, c) ==
    \/ l.op \in {"onConnected", "onDisconnected"}
    \/ ControlPointOfSize(l, 1)
    \/ AcceptedCovering(l, c)

\* the last operation was an accepted addNewAlertToCategory(c)
AcceptedAlert(l, c) == AddedAlert(l, c) /\ l.log # "not supported"

\* C15 as stated: in every step the counter of a category is unchanged, or
\* becomes old + 1 through an accepted addNewAlertToCategory of that
\* category, or becomes 0 through an explicit clear; no 2-byte control-point
\* command changes a counter.
C15_CounterStepsPlusOneOrClear ==
    [][/\ \A c \in Categories :
            \/ alert_status'[c].count = alert_status[c].count
            \/ /\ alert_status'[c].count = alert_status[c].count + 1
               /\ AcceptedAlert(last', c)
            \/ /\ alert_status'[c].count = 0
               /\ ExplicitClear(last', c)
       /\ ControlPointOfSize(last', 2) => UNCHANGED alert_status]_vars

\* C15 amended: as C15, the increment being modulo 256: an accepted
\* addNewAlertToCategory of a category whose counter is 255 leaves it at 0.
C15_CounterStepsPlusOneMod256OrClear ==
    [][/\ \A c \in Categories :
            \/ alert_status'[c].count = alert_status[c].count
            \/ /\ alert_status'[c].count = (alert_status[c].count + 1) % 256
               /\ AcceptedAlert(last', c)
            \/ /\ alert_status'[c].count = 0
               /\ ExplicitClear(last', c)
       /\ ControlPointOfSize(last', 2) => UNCHANGED alert_status]_vars

\* removeSupportedNewAlertsCategory(2) has cleared the counter of category 2
\* and left the counter of category 0, which alerts had raised to 200
C15_Witness ==
    /\ last.op = "removeSupportedNewAlertsCategory"
    /\ last.arg = <<2>>
    /\ last.ret = "true"
    /\ alert_status[2].count = 0
    /\ alert_status[0].count = 200

\* C16: the counter of a category is an 8-bit unsigned value: an accepted
\* addNewAlertToCategory(c) takes it from old to (old + 1) mod 256, from 255
\* to 0, and every notification the call pushes carries the new value.
C16_CounterWrapsAt256 ==
    [][\A c \in CategoryIds :
         AcceptedAlert(last', c)
           => /\ alert_status'[c].count = (alert_status[c].count + 1) % 256
              /\ alert_status[c].count = 255 => alert_status'[c].count = 0
              /\ \A i \in 1..Len(Notifications(writes')) :
                     Notifications(writes')[i].value = alert_status'[c].count]_vars

\* the 256th alert of category 0 was accepted: its counter is 0 again and
\* that 0 was notified on the new-alert channel
C16_Witness ==
    /\ AcceptedAlert(last, 0)
    /\ alert_status[0].count = 0
    /\ Len(writes) = 1
    /\ writes[1].chr = new_alert_index
    /\ writes[1].value = 0

\* the categories, and the bits above them, that a 16-bit mask contains
MembersOf(mask) == {c \in 0..15 : IsSet(mask, c)}

\* C17: right after construction enabledNew and enabledUnread are empty,
\* every counter is 0, no peer is connected, and supportedNew and
\* supportedUnread each contain exactly category 0, the simple alert.
C17_StateAfterConstruction ==
    last.op = "CAlertNotificationService"
      => /\ MembersOf(enabled_new_alert_category) = {}
         /\ MembersOf(enabled_unread_alert_category) = {}
         /\ \A c \in Categories : alert_status[c].count = 0
         /\ ~connected
         /\ MembersOf(supported_new_alert_category) = {ANS_TYPE_SIMPLE_ALERT}
         /\ MembersOf(supported_unread_alert_category) = {ANS_TYPE_SIMPLE_ALERT}

\* the constructor has run, its two setSupported calls included, and no
\* other operation yet
C17_Witness ==
    /\ last.op = "CAlertNotificationService"
    /\ Len(writes) = 2
    /\ button_press_count = 0

\* the last operation was the call name(x)
Called(l, name, x) == l.op = name /\ l.arg = <<x>>

\* C18: with no peer connected, setSupported(axis, m) returns true, makes
\* the supported mask of the axis exactly m, leaves the other three bitmasks,
\* zeroes the counter of every category newly included in m and leaves the
\* counter of every category that is not in m.
C18_SetSupportedWhenDisconnected ==
    [][\A m \in MaskArgs :
         /\ (~connected /\ Called(last', "setSupportedNewAlertsCategory", m))
              => /\ last'.ret = "true"
                 /\ supported_new_alert_category' = m
                 /\ UNCHANGED <<supported_unread_alert_category,
                                enabled_new_alert_category, enabled_unread_alert_category>>
                 /\ \A c \in Categories :
                      /\ (IsSet(m, c) /\ ~IsSet(supported_new_alert_category, c))
                           => alert_status'[c].count = 0
                      /\ ~IsSet(m, c) => alert_status'[c] = alert_status[c]
         /\ (~connected /\ Called(last', "setSupportedUnreadAlertsCategory", m))
              => /\ last'.ret = "true"
                 /\ supported_unread_alert_category' = m
                 /\ UNCHANGED <<supported_new_alert_category,
                                enabled_new_alert_category, enabled_unread_alert_category>>
                 /\ \A c \in Categories :
                      /\ (IsSet(m, c) /\ ~IsSet(supported_unread_alert_category, c))
                           => alert_status'[c].count = 0
                      /\ ~IsSet(m, c) => alert_status'[c] = alert_status[c]]_vars

\* setSupportedUnreadAlertsCategory(4) was accepted: category 2 is the one
\* supported for unread alerts, its counter is 0, and category 0, which is
\* not in the mask, keeps its two alerts and its subscription
C18_Witness ==
    /\ Called(last, "setSupportedUnreadAlertsCategory", 4)
    /\ last.ret = "true"
    /\ supported_unread_alert_category = 4
    /\ alert_status[2].count = 0
    /\ alert_status[0].count = 2
    /\ IsSet(enabled_unread_alert_category, 0)

\* C19: with no peer connected, addSupported(axis, c) returns true, adds the
\* bit of c to the supported mask of the axis and removes none, sets the
\* counter of c to 0 and leaves the other three bitmasks and the other
\* counters.
C19_AddSupportedWhenDisconnected ==
    [][\A c \in CategoryIds :
         /\ (~connected /\ Called(last', "addSupportedNewAlertsCategory", c))
              => /\ last'.ret = "true"
                 /\ MembersOf(supported_new_alert_category')
                      = MembersOf(supported_new_alert_category) \cup {c}
                 /\ UNCHANGED <<supported_unread_alert_category,
                                enabled_new_alert_category, enabled_unread_alert_category>>
                 /\ alert_status'[c].count = 0
                 /\ \A d \in Categories \ {c} : alert_status'[d] = alert_status[d]
         /\ (~connected /\ Called(last', "addSupportedUnreadAlertsCategory", c))
              => /\ last'.ret = "true"
                 /\ MembersOf(supported_unread_alert_category')
                      = MembersOf(supported_unread_alert_category) \cup {c}
                 /\ UNCHANGED <<supported_new_alert_category,
                                enabled_new_alert_category, enabled_unread_alert_category>>
                 /\ alert_status'[c].count = 0
                 /\ \A d \in Categories \ {c} : alert_status'[d] = alert_status[d]]_vars

\* addSupportedNewAlertsCategory(2) was accepted: categories 0 and 2 are
\* supported, the counter of 2 is 0 and category 0 keeps its two alerts
C19_Witness ==
    /\ Called(last, "addSupportedNewAlertsCategory", 2)
    /\ last.ret = "true"
    /\ MembersOf(supported_new_alert_category) = {0, 2}
    /\ alert_status[2].count = 0
    /\ alert_status[0].count = 2

\* C20: with no peer connected, removeSupported(axis, c) returns true,
\* clears the bit of c from the supported mask of the axis, sets the counter
\* of c to 0 and leaves both enabled masks, so that c can be enabled on an
\* axis that does not support it.
C20_RemoveSupportedWhenDisconnected ==
    [][\A c \in CategoryIds :
         /\ (~connected /\ Called(last', "removeSupportedNewAlertsCategory", c))
              => /\ last'.ret = "true"
                 /\ MembersOf(supported_new_alert_category')
                      = MembersOf(supported_new_alert_category) \ {c}
                 /\ alert_status'[c].count = 0
                 /\ UNCHANGED <<enabled_new_alert_category, enabled_unread_alert_category>>
         /\ (~connected /\ Called(last', "removeSupportedUnreadAlertsCategory", c))
              => /\ last'.ret = "true"
                 /\ MembersOf(supported_unread_alert_category')
                      = MembersOf(supported_unread_alert_category) \ {c}
                 /\ alert_status'[c].count = 0
                 /\ UNCHANGED <<enabled_new_alert_category, enabled_unread_alert_category>>]_vars

\* removeSupportedNewAlertsCategory(0) was accepted after category 0 had
\* been enabled: it is enabled for new alerts and no longer supported
C20_Witness ==
    /\ Called(last, "removeSupportedNewAlertsCategory", 0)
    /\ last.ret = "true"
    /\ ~connected
    /\ IsSet(enabled_new_alert_category, 0)
    /\ ~IsSet(supported_new_alert_category, 0)
    /\ alert_status[0].count = 0


\* the last operation was a 2-byte control-point write
ControlPointCommand(l) ==
    /\ l.op = "onDataWrittenHandler"
    /\ Len(l.arg) = 3
    /\ l.arg[1] = alert_notification_control_point_index

\* C21: a 2-byte control-point write whose command byte is not in 0..5
\* changes no bitmask and no counter and pushes no notification, whatever
\* the category byte.
C21_UnknownCommandIsNoOp ==
    [][(ControlPointCommand(last') /\ last'.arg[2] \notin 0..5)
         => /\ UNCHANGED masks
            /\ UNCHANGED alert_status
            /\ Notifications(writes') = <<>>]_vars

\* an unknown command arrived for each kind of category byte while the peer
\* is subscribed on both axes and a counter is not zero
C21_Witness ==
    /\ ControlPointCommand(last)
    /\ last.arg[2] = 6
    /\ last.arg[3] \in {10, ANS_TYPE_ALL_ALERTS}
    /\ last.log = ""
    /\ enabled_new_alert_category # 0
    /\ enabled_unread_alert_category # 0
    /\ alert_status[ANS_TYPE_SIMPLE_ALERT].count > 0


\* the bits of mask apart from bit c
OtherBits(mask, c) == [b \in (0..15) \ {c} |-> Bit(mask, b)]

\* C22: the enable and disable commands 0..3 push no notification and
\* change no counter and neither supported mask; commands 0 and 2 leave the
\* enabled-unread mask as it was, commands 1 and 3 leave the enabled-new
\* mask as it was, and for a category c of 0..9 only bit c of the enabled
\* mask can change.
C22_EnableDisableFrame ==
    [][(ControlPointCommand(last') /\ last'.arg[2] \in 0..3)
         => /\ Notifications(writes') = <<>>
            /\ UNCHANGED alert_status
            /\ UNCHANGED <<supported_new_alert_category, supported_unread_alert_category>>
            /\ last'.arg[2] \in {ANS_ENABLE_NEW_INCOMING_ALERT_NOTIFICATION,
                                 ANS_DISABLE_NEW_INCOMING_ALERT_NOTIFICATION}
                 => UNCHANGED enabled_unread_alert_category
            /\ last'.arg[2] \in {ANS_ENABLE_UNREAD_CATEGORY_STATUS_NOTIFICATION,
                                 ANS_DISABLE_UNREAD_CATEGORY_STATUS_NOTIFICATION}
                 => UNCHANGED enabled_new_alert_category
            /\ last'.arg[3] \in Categories
                 => /\ OtherBits(enabled_new_alert_category', last'.arg[3])
                         = OtherBits(enabled_new_alert_category, last'.arg[3])
                    /\ OtherBits(enabled_unread_alert_category', last'.arg[3])
                         = OtherBits(enabled_unread_alert_category, last'.arg[3])]_vars

\* a disable command for category 0 cleared bit 0 of the enabled-new mask
\* and left its other bits set, while the other axis is subscribed and a
\* counter is not zero
C22_Witness ==
    /\ ControlPoint(last, <<ANS_DISABLE_NEW_INCOMING_ALERT_NOTIFICATION, ANS_TYPE_SIMPLE_ALERT>>)
    /\ last.log = "Supported and now disabled."
    /\ ~IsSet(enabled_new_alert_category, 0)
    /\ IsSet(enabled_new_alert_category, 2)
    /\ enabled_unread_alert_category # 0
    /\ alert_status[ANS_TYPE_SIMPLE_ALERT].count > 0


\* the last operation was an enable command
EnableCommand(l) ==
    /\ ControlPointCommand(l)
    /\ l.arg[2] \in {ANS_ENABLE_NEW_INCOMING_ALERT_NOTIFICATION,
                     ANS_ENABLE_UNREAD_CATEGORY_STATUS_NOTIFICATION}

\* the operations that clear counters and raise none
Clearing(l) ==
    \/ l.op \in {"onConnected", "onDisconnected"} \cup Mutators
    \/ ControlPointOfSize(l, 1)

\* the first two parts of C23, where accepted(supported, c) says when an
\* enable command for the enabled category c has to be reported as accepted
EnableIdempotent(accepted(_, _)) ==
    /\ (EnableCommand(last) /\ EnableCommand(last') /\ last'.arg = last.arg)
         => UNCHANGED masks
    /\ \A c \in Categories :
         /\ (/\ ControlPoint(last', <<ANS_ENABLE_NEW_INCOMING_ALERT_NOTIFICATION, c>>)
             /\ IsSet(enabled_new_alert_category, c))
              => /\ UNCHANGED enabled_new_alert_category
                 /\ accepted(supported_new_alert_category, c)
                      => last'.log = "Supported and enabled."
         /\ (/\ ControlPoint(last', <<ANS_ENABLE_UNREAD_CATEGORY_STATUS_NOTIFICATION, c>>)
             /\ IsSet(enabled_unread_alert_category, c))
              => /\ UNCHANGED enabled_unread_alert_category
                 /\ accepted(supported_unread_alert_category, c)
                      => last'.log = "Supported and enabled."

\* the last part of C23: a counter that is 0 is 0 after an operation that
\* clears counters
ClearIdempotent ==
    Clearing(last') =>
        \A c \in Categories :
            alert_status[c].count = 0 => alert_status'[c].count = 0

\* C23 as stated: the same enable command twice in a row leaves the four
\* bitmasks as after the first; an enable command for a category that is
\* already enabled leaves the enabled mask unchanged and is reported as
\* accepted; clearing counters that are 0 leaves them 0.
C23_IdempotentAlwaysAccepted ==
    [][EnableIdempotent(LAMBDA supported, c : TRUE) /\ ClearIdempotent]_vars

\* C23 amended: the same enable command twice in a row leaves the four
\* bitmasks as after the first; an enable command for a category that is
\* already enabled leaves the enabled mask unchanged, and is reported as
\* accepted if the category is supported on the axis; clearing counters
\* that are 0 leaves them 0.
C23_IdempotentAcceptedIfSupported ==
    [][EnableIdempotent(IsSet) /\ ClearIdempotent]_vars

\* an enable command arrived for a category that was enabled on the unread
\* axis already and is not supported there any more, while every counter
\* is 0
C23_Witness ==
    \E c \in Categories :
        /\ ControlPoint(last, <<ANS_ENABLE_UNREAD_CATEGORY_STATUS_NOTIFICATION, c>>)
        /\ last.log = "Category not supported."
        /\ IsSet(enabled_unread_alert_category, c)
        /\ ~IsSet(supported_unread_alert_category, c)
        /\ \A d \in Categories : alert_status[d].count = 0


\* C24: in every state in which the service is registered, the value held
\* for the Supported New Alert Category characteristic is the supported-new
\* mask and the value held for the Supported Unread Alert Category
\* characteristic is the supported-unread mask.
C24_PublishedEqualsSupported ==
    registered =>
        /\ attribute[supported_new_alert_category_index] = supported_new_alert_category
        /\ attribute[supported_unread_alert_category_index] = supported_unread_alert_category


\* the state of the service that its handlers work on
engine == <<connected, button_press_count, masks, alert_status>>

\* the number of buttonPressedHandler calls waiting in a queue
Pending(queue) ==
    Len(SelectSeq(queue, LAMBDA e : e.call = "buttonPressedHandler"))

\* the step takes the oldest entry off the queue
Dispatched == event_queue # <<>> /\ event_queue' = Tail(event_queue)

\* the name under which the handler of a queue entry is recorded in last
HandlerOf(e) ==
    IF e.call = "onDataWritten" THEN "onDataWrittenHandler" ELSE e.call

\* C25, safety: a falling edge of the button, and no other step, posts one
\* buttonPressedHandler call, and that step only appends the call to the
\* queue and leaves the state of the service alone; the state of
\* the service changes only in a step that takes the oldest call off the
\* queue and runs the handler of that call; each run of
\* buttonPressedHandler takes one posted call off the queue, adds one to
\* the press count and raises one alert of the simple-alert category.
ButtonPostedThenHandledOnce ==
    /\ (presses' # presses \/ Pending(event_queue') > Pending(event_queue))
         => /\ presses' = presses + 1
            /\ event_queue' = Append(event_queue, Event("buttonPressedHandler", <<>>))
            /\ UNCHANGED engine
    /\ engine' # engine
         => /\ Dispatched
            /\ last'.op = HandlerOf(Head(event_queue))
    /\ Pending(event_queue') < Pending(event_queue)
         => /\ Dispatched
            /\ Head(event_queue).call = "buttonPressedHandler"
            /\ Pending(event_queue') = Pending(event_queue) - 1
            /\ last'.op = "buttonPressedHandler"
            /\ button_press_count' = button_press_count + 1
            /\ alert_status' = IncrementCount(alert_status, ANS_TYPE_SIMPLE_ALERT)
            /\ UNCHANGED <<connected, masks>>

\* C25: the button interrupt only posts buttonPressedHandler to the event
\* queue and changes no state of the service; every posted call is run
\* later, exactly once, as one increment of the press count and one
\* addNewAlertToCategory(simple alert), so that the n-th press is followed
\* by the n-th run; the state of the service changes only in whole
\* handlers run from the queue, one after the other.
C25_ButtonHandledOnceFromQueue ==
    /\ [][ButtonPostedThenHandledOnce]_vars
    /\ \A n \in 1..MaxPress :
         (presses >= n) ~> (presses - Pending(event_queue) >= n)

\* a button press was handled while a connect event posted after it waits
\* in the queue, and the peer had subscribed, so that the alert was notified
C25_Witness ==
    /\ last.op = "buttonPressedHandler"
    /\ Notifications(writes) # <<>>
    /\ button_press_count = 2
    /\ event_queue # <<>>
    /\ Head(event_queue).call = "onConnected"


\* the masks with exactly one bit set
SingleBitMasks == {2^b : b \in 0..15}

\* C26: getCategoryMaskFromId returns 1 << c for every category c of 0..9
\* and 0x03FF for ANS_TYPE_ALL_ALERTS, which is not a single-bit mask; a
\* call changes no state of the service.
C26_MaskOfCategory ==
    /\ [](Len(trip) >= 2 =>
            /\ trip[1] \in Categories => trip[2] = 2^trip[1]
            /\ trip[1] = ANS_TYPE_ALL_ALERTS
                 => (trip[2] = 1023 /\ trip[2] \notin SingleBitMasks))
    /\ [][trip' # trip => UNCHANGED <<ans_vars, published, queue_vars,
                                      server_vars, service_vars, ias_vars,
                                      gap_vars>>]_vars

\* the mask of ANS_TYPE_ALL_ALERTS has been computed
C26_Witness ==
    /\ Len(trip) = 2
    /\ trip[1] = ANS_TYPE_ALL_ALERTS
    /\ trip[2] = ANS_TYPE_MASK_ALL_ALERTS

\* C27: for every category c of 0..9, getCategoryIdFromMask of the mask of
\* c is c, and the mask of that result is the mask of c again; for
\* ANS_TYPE_ALL_ALERTS the round trip gives another category and another
\* mask.
C27_RoundTrip ==
    Len(trip) = 4 =>
        /\ trip[1] \in Categories => (trip[3] = trip[1] /\ trip[4] = trip[2])
        /\ trip[1] = ANS_TYPE_ALL_ALERTS => (trip[3] # trip[1] /\ trip[4] # trip[2])

\* the round trip has been made for the last category
C27_Witness ==
    trip = <<ANS_ALERT_CATEGORY_COUNT - 1, 512, ANS_ALERT_CATEGORY_COUNT - 1, 512>>


\* C28: addService(s) appends s to the service list and returns true if
\* and only if s has been created and startServer has not been called;
\* otherwise it returns false and leaves the list unchanged.
C28_AddServiceIffCreatedAndNotStarted ==
    [][\A s \in ServiceIds :
         (last'.op = "addService" /\ last'.arg = <<s>>)
           => IF service[s] /\ ~event_handler
              THEN last'.ret = "true" /\ services' = Append(services, s)
              ELSE last'.ret = "false" /\ UNCHANGED services]_vars

\* C29: addCharacteristic returns true and appends one characteristic and
\* one user-description entry while the service has not been created, and
\* returns false and leaves both lists unchanged once it has; the two lists
\* have the same length in every state; createService on a service without
\* a characteristic returns BLE_ERROR_INVALID_STATE and creates no service.
C29_CharacteristicsAndDescriptions ==
    /\ [][\A s \in ServiceIds :
            /\ (last'.op = "addCharacteristic" /\ last'.arg[1] = s)
                 => IF ~service[s]
                    THEN /\ last'.ret = "true"
                         /\ Len(characteristics'[s]) = Len(characteristics[s]) + 1
                         /\ SubSeq(characteristics'[s], 1, Len(characteristics[s]))
                              = characteristics[s]
                         /\ Len(characteristics_user_descriptions'[s])
                              = Len(characteristics_user_descriptions[s]) + 1
                         /\ SubSeq(characteristics_user_descriptions'[s], 1,
                                   Len(characteristics_user_descriptions[s]))
                              = characteristics_user_descriptions[s]
                    ELSE /\ last'.ret = "false"
                         /\ UNCHANGED <<characteristics, characteristics_user_descriptions>>
            /\ (/\ last'.op = "createService"
                /\ last'.arg = <<s>>
                /\ characteristics[s] = <<>>)
                 => /\ last'.ret = "BLE_ERROR_INVALID_STATE"
                    /\ ~service'[s]]_vars
    /\ [](\A s \in ServiceIds :
            Len(characteristics[s]) = Len(characteristics_user_descriptions[s]))

\* addCharacteristic has been refused for a created service that holds a
\* characteristic without user description, after createService had
\* failed for the other, empty service
C29_Witness ==
    /\ last.op = "addCharacteristic"
    /\ last.ret = "false"
    /\ \E s \in ServiceIds :
         /\ last.arg[1] = s
         /\ service[s]
         /\ <<>> \in {characteristics_user_descriptions[s][i] :
                        i \in 1..Len(characteristics_user_descriptions[s])}
    /\ \E s \in ServiceIds : characteristics[s] = <<>> /\ ~service[s]

\* C30: after onConnected the alert level is NO_ALERT and after
\* onDisconnected it is MEDIUM; after a write of a level 0, 1 or 2 to the
\* alert-level characteristic the alert level is the level written.
C30_AlertLevelFollowsEvents ==
    [][/\ last'.op = "CImmediateAlertService::onConnected"
            => alert_level' = IAS_ALERT_LEVEL_NO_ALERT
       /\ last'.op = "CImmediateAlertService::onDisconnected"
            => alert_level' = IAS_ALERT_LEVEL_MEDIUM
       /\ (/\ last'.op = "CImmediateAlertService::onDataWrittenHandler"
           /\ last'.arg[1] \in {IAS_ALERT_LEVEL_NO_ALERT, IAS_ALERT_LEVEL_MEDIUM,
                                IAS_ALERT_LEVEL_HIGH})
            => alert_level' = last'.arg[1]]_vars

\* C31: after every 2-byte control-point write, whatever its command byte
\* and its category byte (0xFF included), every element of _alert_status
\* the handler has read or written has an index in 0..9: no index behind
\* the array has been used.
C31_StatusIndexInRange ==
    (ControlPointOfSize(last, 2)) => stray = {}

\* every bit of mask a is a bit of mask b
SubsetMask(a, b) == BitAnd(a, b) = a

\* C32: in every state the firmware reaches from construction through
\* control-point writes, button presses, connects and disconnects, with no
\* call that changes the supported masks, enabledNew is a subset of
\* supportedNew and enabledUnread is a subset of supportedUnread.
C32_EnabledSubsetOfSupported ==
    /\ SubsetMask(enabled_new_alert_category, supported_new_alert_category)
    /\ SubsetMask(enabled_unread_alert_category, supported_unread_alert_category)

\* C33: in every reachable state each of the four bitmasks holds only bits
\* of the ten defined categories, that is, is a subset of 0x03FF, whatever
\* mask is passed to setSupported*AlertsCategory and whatever category byte
\* arrives in a control-point command.
C33_MasksWithinCategories ==
    /\ SubsetMask(supported_new_alert_category, ANS_TYPE_MASK_ALL_ALERTS)
    /\ SubsetMask(supported_unread_alert_category, ANS_TYPE_MASK_ALL_ALERTS)
    /\ SubsetMask(enabled_new_alert_category, ANS_TYPE_MASK_ALL_ALERTS)
    /\ SubsetMask(enabled_unread_alert_category, ANS_TYPE_MASK_ALL_ALERTS)

\* C34: a button press handled while no peer is connected, before the
\* first onConnected or after an onDisconnected, pushes no notification on
\* the new-alert and unread-status channels, even if its category is still
\* enabled from an earlier connection.
C34_NoPushWhileDisconnected ==
    [][(~connected /\ last'.op = "buttonPressedHandler")
         => Notifications(writes') = <<>>]_vars

\* C35: a write handed to the service for a characteristic that is not its
\* control point, or not one of its characteristics at all, changes no
\* bitmask and no counter and pushes no notification, whatever the bytes
\* and their number.
C35_OnlyControlPointWritesAct ==
    [][(/\ last'.op = "onDataWrittenHandler"
        /\ last'.arg[1] # alert_notification_control_point_index)
         => /\ UNCHANGED masks
            /\ UNCHANGED alert_status
            /\ Notifications(writes') = <<>>]_vars

\* a notify command for an enabled category with a counter above 0 was
\* written to the New Alert characteristic and nothing was pushed
C35_Witness ==
    /\ last.op = "onDataWrittenHandler"
    /\ last.arg = <<new_alert_index, ANS_NOTIFY_NEW_INCOMING_ALERT_IMMEDIATELY,
                    ANS_TYPE_SIMPLE_ALERT>>
    /\ IsSet(enabled_new_alert_category, ANS_TYPE_SIMPLE_ALERT)
    /\ alert_status[ANS_TYPE_SIMPLE_ALERT].count > 0
    /\ writes = <<>>

\* the entries of _services whose service has a characteristic with the
\* value handle h
Owners(h) ==
    {i \in DOMAIN services :
        \E k \in DOMAIN characteristics[services[i]] :
            getValueHandle(services[i], characteristics[services[i]][k]) = h}

\* the least member of a non-empty set of numbers
Least(S) == CHOOSE i \in S : \A j \in S : i <= j

\* C36: for a write event on the attribute handle h, onDataWritten calls
\* onDataWrittenHandler on one service at most; when a service of
\* _services has a characteristic with the value handle h, the call is made
\* on the first such service in the order of insertion and passes that
\* characteristic and the data of the event; when no service has one, no
\* handler is called.
C36_WriteGoesToFirstOwner ==
    [][last'.op = "onDataWritten"
         => LET h == last'.arg[1]
                data == Tail(last'.arg)
            IN /\ Len(delivered') <= 1
               /\ Owners(h) = {} => delivered' = <<>>
               /\ Owners(h) # {}
                    => /\ Len(delivered') = 1
                       /\ delivered'[1].at = Least(Owners(h))
                       /\ getValueHandle(delivered'[1].service,
                                         delivered'[1].characteristic) = h
                       /\ delivered'[1].data = data]_vars

\* the fields the services change in onConnected
service_fields == <<connected, button_press_count, alert_status,
                    alert_level, alert_level_value>>

\* C37: CSecureGap::onConnectionComplete for an event whose status is not
\* success returns without setting the link security and without calling
\* the connected callback, so that no service receives onConnected; for an
\* event whose status is success it sets the link security to encryption
\* with MITM and calls the connected callback exactly once.
C37_ConnectedOnlyOnSuccess ==
    [][last'.op = "onConnectionComplete"
         => IF last'.arg[1] # "BLE_ERROR_NONE"
            THEN /\ UNCHANGED link_security
                 /\ UNCHANGED service_fields
                 /\ writes' = <<>>
            ELSE /\ link_security' = "SECURITY_MODE_ENCRYPTION_WITH_MITM"
                 /\ connected'
                 /\ alert_level' = IAS_ALERT_LEVEL_NO_ALERT
                 /\ writes' = << setCharacteristicValue(0, 1, IAS_ALERT_LEVEL_NO_ALERT) >>]_vars

\* C38: once the BLE initialisation is complete, whatever connection and
\* disconnection events follow, one periodic LED event is scheduled while
\* no peer is connected and none while a peer is connected, so that there
\* is never more than one; and every disconnection event starts
\* advertising again.
C38_OneLedEventWhileAdvertising ==
    /\ [](ble_init = "complete"
            => Cardinality(led_events) = IF peer THEN 0 ELSE 1)
    /\ [][last'.op = "onDisconnectionComplete" => advertising']_vars

\* the categories whose bit is set in a mask
CategoriesIn(mask) == {c \in Categories : IsSet(mask, c)}

\* C39: for every 16-bit mask getCategoryIdFromMask returns the index of
\* the lowest set bit among the bits 0..9, and 0 when none of these bits is
\* set, whether the mask is empty or has bits among 10..15 only.
C39_CategoryOfMask ==
    Len(trip) = 2 =>
        trip[2] = IF CategoriesIn(trip[1]) = {} THEN 0
                  ELSE Least(CategoriesIn(trip[1]))

\* the conversion has been made for a mask with the bits 3, 9 and 10
C39_Witness == trip = <<1544, 3>>

====
